---- MODULE Spec2Model ----
(***************************************************************************)
(* Dispatch-simulation dashboard of Load-Assignment: the simulation tick,  *)
(* the user controls, the redzone / geofence latches and the asynchronous  *)
(* call and detour-route requests, together with the pure helpers of       *)
(* lib/simulation.ts and lib/directions.ts.                                *)
(*                                                                         *)
(* Units.  progress is counted in steps of 0.005 (ProgressOne = 1.0),      *)
(* coordinates are kilometres on a plane, distances are kilometres rounded *)
(* up, times are simulated seconds.                                        *)
(*                                                                         *)
(* Specifications.  Spec is the dashboard page as it is wired;             *)
(* SpecDetourCall is the detour call with its webhook and status poll,     *)
(* started from the state in which a redzone alert has just been raised;   *)
(* SpecDetourRoute is the same state with the detour-route requests of    *)
(* the Detour button and of the accepted call; SpecSelect adds the         *)
(* selection of another journey; SpecHelpers calls updateProgress and      *)
(* checkForStoppage on drawn arguments; SpecBuilder is one request to      *)
(* POST /api/directions/detour, a step per answer of the routing service;  *)
(* SpecSpeed calls calculateETA and updateProgress with speeds of either   *)
(* sign; SpecStoppage is a started run with stoppages close together;      *)
(* SpecBackend is the trigger-call and webhook handlers of the backend on  *)
(* the rows of two journeys and two loads, a step per database or service  *)
(* call; SpecRetry is that backend with the requests the dashboards send.  *)
(* An asynchronous handler is a request step and a response step, with     *)
(* the request in flight in between.                                       *)
(***************************************************************************)
EXTENDS Integers, Sequences, FiniteSets, TLC

VARIABLES
    selectedJourney,        \* id of the selected journey or NoJourney
    isSimulating,
    speed,
    progress,
    routePath,
    totalDistanceKm,
    truckPosition,
    journeyStatus,
    stoppages,
    currentStoppage,
    stoppageTimer,
    geofenceEntered,
    zones,
    redzoneAlertTriggered,
    redzoneZone,
    detourRoute,
    isOnDetour,
    detourCallStatus,
    isWaitingForCall,
    mapAlerts,              \* shown redzone alerts, per zone id
    events,                 \* newest first: event types added by the last step
    loadCallReq,            \* trigger-call request in flight
    detourCalcs,            \* detour-route requests in flight, by caller
    detourCallReq,          \* trigger-detour-call request in flight
    unloadingTimer,         \* unloading timeout armed
    detourCallOutcome,      \* outcome of the latest detour call log
    geofenceFires,          \* history: geofence actions since the last reset
    stoppageStarts,         \* history: starts of each stoppage of the list
    stoppageHeld,           \* history: seconds counted down of each stoppage
    staleRequests,          \* history: requests in flight since before a reset
    call,                   \* last call of a pure helper: arguments, result
    detourPost,             \* POST /api/directions/detour: locals, position
    backend                 \* database rows, API handlers at work on them

vars == << selectedJourney, isSimulating, speed, progress, routePath,
           totalDistanceKm, truckPosition, journeyStatus, stoppages,
           currentStoppage, stoppageTimer, geofenceEntered, zones,
           redzoneAlertTriggered, redzoneZone, detourRoute, isOnDetour,
           detourCallStatus, isWaitingForCall, mapAlerts, events,
           loadCallReq, detourCalcs, detourCallReq, unloadingTimer,
           detourCallOutcome, geofenceFires, stoppageStarts, stoppageHeld,
           staleRequests, call, detourPost, backend >>

\* the variables of the dashboard page
dashVars == << selectedJourney, isSimulating, speed, progress, routePath,
               totalDistanceKm, truckPosition, journeyStatus, stoppages,
               currentStoppage, stoppageTimer, geofenceEntered, zones,
               redzoneAlertTriggered, redzoneZone, detourRoute, isOnDetour,
               detourCallStatus, isWaitingForCall, mapAlerts, events,
               loadCallReq, detourCalcs, detourCallReq, unloadingTimer,
               detourCallOutcome, geofenceFires, stoppageStarts, stoppageHeld,
               staleRequests >>

(***************************************************************************)
(* Program constants                                                       *)
(***************************************************************************)
ProgressOne == 200
MaxProgressDelta == 2
StoppageWindow == 1
JumpProgress == 170
GEOFENCE_RADIUS_KM == 10
REDZONE_RADIUS_KM == 10
BASE_SPEED_KMH == 120
InitialSpeed == 50
StoppageCount == 2

(***************************************************************************)
(* Bounds of the model                                                     *)
(***************************************************************************)
CounterCap == 2

NoJourney == "none"
NoZone == "none"
NoPos == [x |-> -1, y |-> -1]
NoRoute == << >>
NoStoppage == [position |-> -1, duration |-> -1, triggered |-> FALSE]
NoTimer == -1
NoCall == [fn |-> "none"]
NoPost == [pc |-> "idle"]

(***************************************************************************)
(* Backend: the rows of the database before any call                       *)
(***************************************************************************)
Loads == {"l1", "l2"}
Drivers == {"a", "b"}           \* the journeys of two trucks
NoLoad == "none"
NoCallId == 0
IdleTrigger ==
    [pc |-> "idle", exhausted |-> {}, nearestLoad |-> NoLoad, callLog |-> 0,
     ringg |-> "none", status |-> 0, success |-> FALSE]
IdleWebhook ==
    [pc |-> "idle", callLog |-> 0, journeyId |-> "none", loadId |-> NoLoad,
     outcome |-> "UNKNOWN"]
InitialBackend ==
    [loads |-> [l \in Loads |-> "AVAILABLE"],
     assignedLoadId |-> [j \in Drivers |-> NoLoad],
     callLogs |-> << >>,
     trigger |-> [j \in Drivers |-> IdleTrigger],
     webhook |-> IdleWebhook]

Min(a, b) == IF a <= b THEN a ELSE b
Abs(a) == IF a < 0 THEN -a ELSE a
Pt(px, py) == [x |-> px, y |-> py]

(***************************************************************************)
(* The world of the model: one journey on a straight 200 km road, three    *)
(* zones, the choices of the random stoppage generator, the tick periods.  *)
(***************************************************************************)
Journeys == {"j1"}
\* the journey list with a second journey, on the first 100 km of the road
ListedJourneys == {"j1", "j2"}
JourneyOrigin(j) == Pt(0, 0)
JourneyDestination(j) ==
    IF j = "j2" THEN Pt(100, 0) ELSE IF j = "j3" THEN Pt(20, 0) ELSE Pt(200, 0)
JourneyRoute(j) == << JourneyOrigin(j), JourneyDestination(j) >>
JourneyRouteKm(j) == IF j = "j2" THEN 100 ELSE IF j = "j3" THEN 20 ELSE 200

ZoneList ==
    << [id |-> "z3", category |-> "STOPPAGE",
        coordinates |-> << Pt(30, 3), Pt(34, 3), Pt(32, 7) >>],
       [id |-> "z1", category |-> "THEFT",
        coordinates |-> << Pt(60, 4), Pt(64, 4), Pt(62, 8) >>],
       [id |-> "z2", category |-> "HIGH_RISK",
        coordinates |-> << Pt(60, -4), Pt(64, -4), Pt(62, -8) >>] >>
ZoneIds == {"z1", "z2", "z3"}

DetourRoutes == { << Pt(50, 0), Pt(50, 20), Pt(200, 20), Pt(200, 0) >> }

\* outcomes of the random generator: (position, duration) of each stoppage
StoppageDraws == { << << 45, 15 >>, << 46, 15 >> >> }
\* measured tick periods; at speed 50 a 2 s tick covers more than the cap of
\* updateProgress allows, so progress moves by the cap
DeltaSeconds == {2}
LoadedStatuses == {"NOT_STARTED"}

(***************************************************************************)
(* lib/directions.ts                                                       *)
(***************************************************************************)
RECURSIVE SqrtSearch(_, _, _)
SqrtSearch(n, lo, hi) ==
    IF lo >= hi THEN lo
    ELSE LET mid == (lo + hi) \div 2
         IN  IF mid * mid >= n THEN SqrtSearch(n, lo, mid)
             ELSE SqrtSearch(n, mid + 1, hi)

\* least k with k*k >= n
CeilSqrt(n) == SqrtSearch(n, 0, 1024)

calculateDistance(point1, point2) ==
    CeilSqrt((point2.x - point1.x) * (point2.x - point1.x)
             + (point2.y - point1.y) * (point2.y - point1.y))

distanceToSegment(point, segStart, segEnd) ==
    LET distToStart == calculateDistance(point, segStart)
        distToEnd == calculateDistance(point, segEnd)
        ex == segEnd.x - segStart.x
        ey == segEnd.y - segStart.y
        len2 == ex * ex + ey * ey
        along == (point.x - segStart.x) * ex + (point.y - segStart.y) * ey
        cross == (point.x - segStart.x) * ey - (point.y - segStart.y) * ex
    IN  IF len2 = 0 THEN distToStart
        ELSE IF along < 0 THEN distToStart
        ELSE IF along > len2 THEN distToEnd
        ELSE CeilSqrt((cross * cross + len2 - 1) \div len2)

Infinity == 100000

RECURSIVE MinOverEdges(_, _, _, _)
MinOverEdges(point, polygon, i, minDistance) ==
    IF i > Len(polygon) THEN minDistance
    ELSE LET p1 == polygon[i]
             p2 == polygon[(i % Len(polygon)) + 1]
         IN  MinOverEdges(point, polygon, i + 1,
                          Min(minDistance, distanceToSegment(point, p1, p2)))

distanceToPolygon(point, polygon) ==
    IF Len(polygon) < 3 THEN Infinity
    ELSE MinOverEdges(point, polygon, 1, Infinity)

RECURSIVE PathLength(_, _)
PathLength(path, i) ==
    IF i > Len(path) THEN 0
    ELSE calculateDistance(path[i - 1], path[i]) + PathLength(path, i + 1)

(***************************************************************************)
(* lib/simulation.ts                                                       *)
(***************************************************************************)
\* the possible results of generateStoppages(2): two untriggered stoppages
\* with positions in [0.2, 0.8] and durations in [10, 20], sorted by position
GenerateStoppagesFrom(draws) ==
    { [i \in 1..StoppageCount |->
          [position |-> draw[i][1], duration |-> draw[i][2], triggered |-> FALSE]] :
      draw \in { d \in draws :
                    /\ \A i \in 1..StoppageCount :
                          /\ d[i][1] * 5 >= ProgressOne /\ d[i][1] * 5 <= 4 * ProgressOne
                          /\ d[i][2] >= 10 /\ d[i][2] <= 20
                    /\ \A i \in 1..(StoppageCount - 1) : d[i][1] <= d[i + 1][1] } }

GenerateStoppages == GenerateStoppagesFrom(StoppageDraws)

calculateSimpleDistance(p1, p2) ==
    CeilSqrt((p2.x - p1.x) * (p2.x - p1.x) + (p2.y - p1.y) * (p2.y - p1.y))

RECURSIVE CumulativeDistance(_, _)
CumulativeDistance(points, i) ==
    IF i <= 1 THEN 0
    ELSE CumulativeDistance(points, i - 1)
         + calculateSimpleDistance(points[i - 1], points[i])

RECURSIVE FindSegment(_, _, _)
FindSegment(points, target, i) ==
    IF i > Len(points) THEN 0
    ELSE IF target <= CumulativeDistance(points, i) * ProgressOne THEN i
    ELSE FindSegment(points, target, i + 1)

\* target and the cumulative distances are compared in units of
\* km / ProgressOne, so that progress * totalDistance is exact
interpolatePosition(points, prog) ==
    IF Len(points) = 0 THEN NoPos
    ELSE IF prog <= 0 THEN points[1]
    ELSE IF prog >= ProgressOne THEN points[Len(points)]
    ELSE LET target == prog * CumulativeDistance(points, Len(points))
             i == FindSegment(points, target, 2)
         IN  IF i = 0 THEN points[Len(points)]
             ELSE LET segmentStart == CumulativeDistance(points, i - 1) * ProgressOne
                      segmentEnd == CumulativeDistance(points, i) * ProgressOne
                      p1 == points[i - 1]
                      p2 == points[i]
                  IN  IF segmentEnd = segmentStart THEN NoPos
                      ELSE Pt(p1.x + ((p2.x - p1.x) * (target - segmentStart))
                                         \div (segmentEnd - segmentStart),
                              p1.y + ((p2.y - p1.y) * (target - segmentStart))
                                         \div (segmentEnd - segmentStart))

\* mutant of CheckFrom: the window includes its ends
RECURSIVE CheckFromInclusive(_, _, _)
CheckFromInclusive(prog, stops, i) ==
    IF i > Len(stops) THEN 0
    ELSE IF ~stops[i].triggered /\ Abs(prog - stops[i].position) <= StoppageWindow
         THEN i
    ELSE CheckFromInclusive(prog, stops, i + 1)

RECURSIVE CheckFrom(_, _, _)
CheckFrom(prog, stops, i) ==
    IF i > Len(stops) THEN 0
    ELSE IF ~stops[i].triggered /\ Abs(prog - stops[i].position) < StoppageWindow
         THEN i
    ELSE CheckFrom(prog, stops, i + 1)

\* the index of the returned stoppage in the list, 0 for null
checkForStoppage(prog, stops) == CheckFrom(prog, stops, 1)

\* mutant of CappedDelta: the delta is not capped
UncappedDelta(progressDelta) == progressDelta

CappedDelta(progressDelta) == Min(progressDelta, MaxProgressDelta)

updateProgress(currentProgress, deltaTimeSeconds, total, speedMultiplier, baseSpeedKmh) ==
    LET travelled == baseSpeedKmh * speedMultiplier * deltaTimeSeconds * ProgressOne
        progressDelta == IF total = 0 THEN Infinity
                         ELSE travelled \div (3600 * total)
    IN  Min(currentProgress + CappedDelta(progressDelta), ProgressOne)

(***************************************************************************)
(* Dashboard: helpers                                                      *)
(***************************************************************************)
\* addEvent prepends to the event list.  The list grows without bound, so
\* the model keeps in events what the last step prepended to it (newest
\* first), for the recorded types
RecordedTypes == {"ERROR", "WARNING"}
NoEvents == << >>

AddEvent(evs, type) ==
    IF type \in RecordedTypes THEN << type >> \o evs ELSE evs

Bump(n) == Min(n + 1, CounterCap)

\* mutant of MarkTriggered: the flag is not set
MarkNothing(stops, i) == stops

\* stoppage.triggered = true in the tick
MarkTriggered(stops, i) == [stops EXCEPT ![i].triggered = TRUE]

\* mutant of IsRedzoneCategory: zones of every category count
AnyCategory(category) == TRUE

IsRedzoneCategory(category) ==
    category \in {"HIGH_RISK", "THEFT", "PILFERAGE"}

\* min(distance to the first vertex, distance to the polygon boundary)
DistanceToZone(position, zone) ==
    Min(calculateDistance(position, zone.coordinates[1]),
        distanceToPolygon(position, zone.coordinates))

RedzoneInRange(position, zone) ==
    /\ IsRedzoneCategory(zone.category)
    /\ Len(zone.coordinates) >= 3
    /\ DistanceToZone(position, zone) <= REDZONE_RADIUS_KM

RECURSIVE FirstRedzone(_, _, _)
FirstRedzone(position, zs, i) ==
    IF i > Len(zs) THEN 0
    ELSE IF RedzoneInRange(position, zs[i]) THEN i
    ELSE FirstRedzone(position, zs, i + 1)

ZoneById(zs, id) ==
    IF \E i \in 1..Len(zs) : zs[i].id = id
    THEN (CHOOSE i \in 1..Len(zs) : zs[i].id = id)
    ELSE 0

NoAlerts == [z \in ZoneIds |-> 0]
ShownRedzoneAlerts == { z \in ZoneIds : mapAlerts[z] > 0 }

ActiveRoute == IF isOnDetour /\ detourRoute # NoRoute THEN detourRoute ELSE routePath

ActiveTotalDistance ==
    IF isOnDetour /\ detourRoute # NoRoute /\ Len(detourRoute) > 1
    THEN PathLength(detourRoute, 2)
    ELSE totalDistanceKm

\* the asynchronous work in flight: the detour-route requests by caller, the
\* two call triggers, the unloading timeout
InFlight ==
    detourCalcs
        \cup (IF loadCallReq THEN {"loadCall"} ELSE {})
        \cup (IF detourCallReq THEN {"detourCall"} ELSE {})
        \cup (IF unloadingTimer THEN {"unloading"} ELSE {})

InGeofence(position, journey) ==
    calculateDistance(position, JourneyDestination(journey)) <= GEOFENCE_RADIUS_KM

(***************************************************************************)
(* Dashboard: initial state (useState defaults, zones fetched on mount)    *)
(***************************************************************************)
InitDashboard ==
    /\ selectedJourney = NoJourney
    /\ isSimulating = FALSE
    /\ speed = InitialSpeed
    /\ progress = 0
    /\ routePath = << >>
    /\ totalDistanceKm = 0
    /\ truckPosition = NoPos
    /\ journeyStatus = "NOT_STARTED"
    /\ stoppages = << >>
    /\ currentStoppage = NoStoppage
    /\ stoppageTimer = NoTimer
    /\ geofenceEntered = FALSE
    /\ zones = ZoneList
    /\ redzoneAlertTriggered = NoZone
    /\ redzoneZone = NoZone
    /\ detourRoute = NoRoute
    /\ isOnDetour = FALSE
    /\ detourCallStatus = "null"
    /\ isWaitingForCall = FALSE
    /\ mapAlerts = NoAlerts
    /\ events = << >>
    /\ loadCallReq = FALSE
    /\ detourCalcs = {}
    /\ detourCallReq = FALSE
    /\ unloadingTimer = FALSE
    /\ detourCallOutcome = "none"
    /\ geofenceFires = 0
    /\ stoppageStarts = << >>
    /\ stoppageHeld = << >>
    /\ staleRequests = {}

Init ==
    /\ InitDashboard
    /\ call = NoCall
    /\ detourPost = NoPost
    /\ backend = InitialBackend

(***************************************************************************)
(* Dashboard: simulationTick                                               *)
(***************************************************************************)
\* mutant of TickGuard: the tick does not look at the route
TickGuardIgnoringRoute ==
    /\ selectedJourney # NoJourney
    /\ isSimulating

TickGuard ==
    /\ selectedJourney # NoJourney
    /\ isSimulating
    /\ Len(routePath) > 0

StoppageToStart ==
    LET st == checkForStoppage(progress, stoppages)
    IN  IF st # 0 /\ ~stoppages[st].triggered THEN st ELSE 0

\* a stoppage is found at the current progress: start it and return
TickStartStoppage ==
    /\ TickGuard
    /\ StoppageToStart # 0
    /\ LET st == StoppageToStart
       IN  /\ stoppages' = MarkTriggered(stoppages, st)
           /\ currentStoppage' = stoppages'[st]
           /\ stoppageTimer' = stoppages[st].duration
           /\ stoppageStarts' = [stoppageStarts EXCEPT ![st] = Bump(@)]
    /\ journeyStatus' = "STOPPAGE"
    /\ events' = AddEvent(NoEvents, "STOPPAGE")
    /\ UNCHANGED << stoppageHeld, selectedJourney, isSimulating, speed, progress,
                    routePath, totalDistanceKm, truckPosition,
                    geofenceEntered, zones, redzoneAlertTriggered,
                    redzoneZone, detourRoute, isOnDetour, detourCallStatus,
                    isWaitingForCall, mapAlerts, loadCallReq, detourCalcs,
                    detourCallReq, unloadingTimer, detourCallOutcome,
                    geofenceFires, staleRequests, call, detourPost, backend >>

\* history: the seconds of this tick count for the stoppage of the list that
\* currentStoppage is
CountDown(held, seconds) ==
    [i \in DOMAIN held |->
        IF i \in DOMAIN stoppages /\ stoppages[i] = currentStoppage
        THEN held[i] + seconds ELSE held[i]]

\* a stoppage is active: count it down and return
TickActiveStoppage(deltaSeconds) ==
    /\ TickGuard
    /\ StoppageToStart = 0
    /\ currentStoppage # NoStoppage
    /\ stoppageTimer # NoTimer
    /\ LET newTimer == stoppageTimer - deltaSeconds * speed
       IN  IF newTimer <= 0
           THEN /\ currentStoppage' = NoStoppage
                /\ stoppageTimer' = NoTimer
                /\ journeyStatus' = "IN_TRANSIT"
                /\ events' = AddEvent(NoEvents, "STOPPAGE")
           ELSE /\ stoppageTimer' = newTimer
                /\ events' = NoEvents
                /\ UNCHANGED << currentStoppage, journeyStatus >>
    /\ stoppageHeld' = CountDown(stoppageHeld, deltaSeconds * speed)
    /\ UNCHANGED << selectedJourney, isSimulating, speed, progress,
                    routePath, totalDistanceKm, truckPosition, stoppages,
                    geofenceEntered, zones, redzoneAlertTriggered,
                    redzoneZone, detourRoute, isOnDetour, detourCallStatus,
                    isWaitingForCall, mapAlerts, loadCallReq, detourCalcs,
                    detourCallReq, unloadingTimer, detourCallOutcome,
                    geofenceFires, stoppageStarts, staleRequests,
                    call, detourPost, backend >>

\* the index in zones of the redzone the tick alerts for, 0 for none
RedzoneToAlert(position) ==
    IF redzoneAlertTriggered = NoZone /\ ~isOnDetour /\ Len(zones) > 0
    THEN FirstRedzone(position, zones, 1)
    ELSE 0

\* mutant of GeofenceTriggers: the latch is not consulted
GeofenceTriggersIgnoringLatch(position) ==
    InGeofence(position, selectedJourney)

\* the geofence-entered action fires at this position
GeofenceTriggers(position) ==
    InGeofence(position, selectedJourney) /\ ~geofenceEntered

\* no stoppage: advance, then geofence check, redzone check, arrival check
TickAdvance(deltaSeconds) ==
    /\ TickGuard
    /\ StoppageToStart = 0
    /\ ~(currentStoppage # NoStoppage /\ stoppageTimer # NoTimer)
    /\ LET newProgress == updateProgress(progress, deltaSeconds,
                                         ActiveTotalDistance, speed,
                                         BASE_SPEED_KMH)
           position == interpolatePosition(ActiveRoute, newProgress)
           fire == GeofenceTriggers(position)
           zi == RedzoneToAlert(position)
           arrived == newProgress >= ProgressOne
           ev1 == IF fire
                  THEN AddEvent(AddEvent(NoEvents, "INFO"), "STATE_CHANGE")
                  ELSE NoEvents
           ev2 == IF zi # 0 THEN AddEvent(ev1, "WARNING") ELSE ev1
           ev3 == IF arrived THEN AddEvent(ev2, "STATE_CHANGE") ELSE ev2
       IN  /\ progress' = newProgress
           /\ truckPosition' = position
           /\ geofenceEntered' = (geofenceEntered \/ fire)
           /\ geofenceFires' = IF fire THEN Bump(geofenceFires)
                               ELSE geofenceFires
           \* triggerCallForLoad, up to its request
           /\ IF fire /\ ~isWaitingForCall
              THEN isWaitingForCall' = TRUE /\ loadCallReq' = TRUE
              ELSE UNCHANGED << isWaitingForCall, loadCallReq >>
           /\ IF zi # 0
              THEN /\ redzoneAlertTriggered' = zones[zi].id
                   /\ redzoneZone' = zones[zi].id
                   /\ mapAlerts' = [mapAlerts EXCEPT ![zones[zi].id] = Bump(@)]
              ELSE UNCHANGED << redzoneAlertTriggered, redzoneZone, mapAlerts >>
           /\ isSimulating' = ~(fire \/ zi # 0 \/ arrived)
           /\ journeyStatus' = IF arrived THEN "UNLOADING"
                               ELSE IF fire \/ zi # 0 THEN "NEAR_DESTINATION"
                               ELSE journeyStatus
           /\ unloadingTimer' = (unloadingTimer \/ arrived)
           /\ events' = ev3
    /\ UNCHANGED << selectedJourney, speed, routePath, totalDistanceKm,
                    stoppages, currentStoppage, stoppageTimer, zones,
                    detourRoute, isOnDetour, detourCallStatus, detourCalcs,
                    detourCallReq, detourCallOutcome, stoppageStarts, stoppageHeld,
                    
                    staleRequests, call, detourPost, backend >>

simulationTick ==
    \E deltaSeconds \in DeltaSeconds :
        \/ TickStartStoppage
        \/ TickActiveStoppage(deltaSeconds)
        \/ TickAdvance(deltaSeconds)

(***************************************************************************)
(* Dashboard: journey selection and the simulation controls                *)
(***************************************************************************)
NoStarts == [i \in 1..StoppageCount |-> 0]

\* loadJourney; status = the status stored for the journey, ok = the
\* directions request succeeded.  Its addEvent runs
\* in a closure created while no journey was selected and returns early.
loadJourney(journey, status, ok) ==
    /\ selectedJourney' = journey
    /\ journeyStatus' = status
    /\ IF ok
       THEN /\ routePath' = JourneyRoute(journey)
            /\ totalDistanceKm' = JourneyRouteKm(journey)
            /\ stoppages' \in GenerateStoppages
            /\ stoppageStarts' = NoStarts
            /\ stoppageHeld' = NoStarts
            /\ progress' = 0
            /\ truckPosition' = JourneyOrigin(journey)
       ELSE UNCHANGED << routePath, totalDistanceKm, stoppages,
                         stoppageStarts, stoppageHeld,
                    progress, truckPosition >>
    /\ events' = NoEvents
    /\ UNCHANGED << isSimulating, speed, currentStoppage, stoppageTimer,
                    geofenceEntered, zones, redzoneAlertTriggered,
                    redzoneZone, detourRoute, isOnDetour, detourCallStatus,
                    isWaitingForCall, mapAlerts, loadCallReq, detourCalcs,
                    detourCallReq, unloadingTimer, detourCallOutcome,
                    geofenceFires, staleRequests, call, detourPost, backend >>

\* the controls are rendered only while a journey is selected
ControlsShown == selectedJourney # NoJourney

handleStart ==
    /\ ControlsShown
    /\ ~isSimulating
    /\ isSimulating' = TRUE
    /\ IF journeyStatus = "NOT_STARTED"
       THEN /\ journeyStatus' = "IN_TRANSIT"
            /\ events' = AddEvent(NoEvents, "STATE_CHANGE")
       ELSE (events' = NoEvents /\ UNCHANGED << journeyStatus >>)
    /\ UNCHANGED << selectedJourney, speed, progress, routePath,
                    totalDistanceKm, truckPosition, stoppages,
                    currentStoppage, stoppageTimer, geofenceEntered, zones,
                    redzoneAlertTriggered, redzoneZone, detourRoute,
                    isOnDetour, detourCallStatus, isWaitingForCall,
                    mapAlerts, loadCallReq, detourCalcs, detourCallReq,
                    unloadingTimer, detourCallOutcome, geofenceFires,
                    stoppageStarts, stoppageHeld,
                    staleRequests, call, detourPost, backend >>

handlePause ==
    /\ ControlsShown
    /\ isSimulating
    /\ isSimulating' = FALSE
    /\ events' = NoEvents
    /\ UNCHANGED << selectedJourney, speed, progress, routePath,
                    totalDistanceKm, truckPosition, journeyStatus, stoppages,
                    currentStoppage, stoppageTimer, geofenceEntered, zones,
                    redzoneAlertTriggered, redzoneZone, detourRoute,
                    isOnDetour, detourCallStatus, isWaitingForCall,
                    mapAlerts, loadCallReq, detourCalcs, detourCallReq,
                    unloadingTimer, detourCallOutcome, geofenceFires,
                    stoppageStarts, stoppageHeld,
                    staleRequests, call, detourPost, backend >>

handleReset ==
    /\ ControlsShown
    /\ isSimulating' = FALSE
    /\ progress' = 0
    /\ journeyStatus' = "NOT_STARTED"
    /\ currentStoppage' = NoStoppage
    /\ stoppageTimer' = NoTimer
    /\ geofenceEntered' = FALSE
    /\ geofenceFires' = 0
    /\ mapAlerts' = NoAlerts
    /\ truckPosition' = JourneyOrigin(selectedJourney)
    /\ stoppages' \in GenerateStoppages
    /\ stoppageStarts' = NoStarts
    /\ stoppageHeld' = NoStarts
    /\ events' = AddEvent(NoEvents, "INFO")
    /\ staleRequests' = InFlight
    /\ UNCHANGED << selectedJourney, speed, routePath, totalDistanceKm,
                    zones, redzoneAlertTriggered, redzoneZone, detourRoute,
                    isOnDetour, detourCallStatus, isWaitingForCall,
                    loadCallReq, detourCalcs, detourCallReq, unloadingTimer,
                    detourCallOutcome, call, detourPost, backend >>

\* the button is disabled in the states COMPLETED and NEAR_DESTINATION
JumpEnabled ==
    /\ ControlsShown
    /\ journeyStatus \notin {"COMPLETED", "NEAR_DESTINATION"}

\* with an empty route interpolatePosition throws after setProgress
handleJumpNearDestination ==
    /\ JumpEnabled
    /\ progress' = JumpProgress
    /\ IF Len(routePath) = 0
       THEN (events' = NoEvents /\ UNCHANGED << truckPosition >>)
       ELSE /\ truckPosition' = interpolatePosition(routePath, JumpProgress)
            /\ events' = AddEvent(NoEvents, "INFO")
    /\ UNCHANGED << selectedJourney, isSimulating, speed, routePath,
                    totalDistanceKm, journeyStatus, stoppages,
                    currentStoppage, stoppageTimer, geofenceEntered, zones,
                    redzoneAlertTriggered, redzoneZone, detourRoute,
                    isOnDetour, detourCallStatus, isWaitingForCall,
                    mapAlerts, loadCallReq, detourCalcs, detourCallReq,
                    unloadingTimer, detourCallOutcome, geofenceFires,
                    stoppageStarts, stoppageHeld,
                    staleRequests, call, detourPost, backend >>

(***************************************************************************)
(* Dashboard: resolving a redzone alert                                    *)
(***************************************************************************)
\* the alert card with the Detour / Continue buttons is on the map: the
\* page hands the alerts and onAlertAction to the map view, and the card
\* calls onAction for a button of the alert.  A click on a button also
\* closes the card (onClose removes the alert)
AlertCardShown(z) == mapAlerts[z] > 0

CloseAlert(alerts, z) ==
    IF z \in ZoneIds THEN [alerts EXCEPT ![z] = 0] ELSE alerts

\* the close button of an alert card: onAlertClose removes the alert
handleAlertClose ==
    /\ \E z \in ZoneIds : AlertCardShown(z) /\ mapAlerts' = CloseAlert(mapAlerts, z)
    /\ events' = NoEvents
    /\ UNCHANGED << selectedJourney, isSimulating, speed, progress, routePath,
                    totalDistanceKm, truckPosition, journeyStatus, stoppages,
                    currentStoppage, stoppageTimer, geofenceEntered, zones,
                    redzoneAlertTriggered, redzoneZone, detourRoute,
                    isOnDetour, detourCallStatus, isWaitingForCall,
                    loadCallReq, detourCalcs, detourCallReq, unloadingTimer,
                    detourCallOutcome, geofenceFires, stoppageStarts, stoppageHeld,
                    
                    staleRequests, call, detourPost, backend >>

\* handleDetourAction up to the request of calculateDetourRoute
handleDetourAction ==
    /\ \E z \in ZoneIds : AlertCardShown(z) /\ mapAlerts' = CloseAlert(mapAlerts, z)
    /\ redzoneZone # NoZone
    /\ selectedJourney # NoJourney
    /\ truckPosition # NoPos
    /\ detourCalcs' = detourCalcs \cup {"action"}
    /\ events' = NoEvents
    /\ UNCHANGED << selectedJourney, isSimulating, speed, progress,
                    routePath, totalDistanceKm, truckPosition, journeyStatus,
                    stoppages, currentStoppage, stoppageTimer,
                    geofenceEntered, zones, redzoneAlertTriggered,
                    redzoneZone, detourRoute, isOnDetour, detourCallStatus,
                    isWaitingForCall, loadCallReq, detourCallReq,
                    unloadingTimer, detourCallOutcome, geofenceFires,
                    stoppageStarts, stoppageHeld,
                    staleRequests, call, detourPost, backend >>

\* the state changes of a caller of calculateDetourRoute once the route is
\* there: route substitution, progress reset, resume
SubstituteDetour(detour) ==
    /\ detourRoute' = detour
    /\ routePath' = detour
    /\ totalDistanceKm' = PathLength(detour, 2)
    /\ progress' = 0
    /\ events' = AddEvent(NoEvents, "INFO")
    /\ isSimulating' = TRUE
    /\ journeyStatus' = "IN_TRANSIT"

\* the response of /api/directions/detour reaches handleDetourAction
DetourRouteForAction(detour) ==
    /\ "action" \in detourCalcs
    /\ detourCalcs' = detourCalcs \ {"action"}
    /\ IF detour # NoRoute
       THEN /\ SubstituteDetour(detour)
            /\ isOnDetour' = TRUE
            /\ mapAlerts' = CloseAlert(mapAlerts, redzoneZone)
       ELSE /\ events' = NoEvents
            /\ UNCHANGED << detourRoute, routePath, totalDistanceKm,
                            progress, isSimulating, journeyStatus,
                            isOnDetour, mapAlerts >>
    /\ staleRequests' = staleRequests \ {"action"}
    /\ UNCHANGED << selectedJourney, speed, truckPosition, stoppages,
                    currentStoppage, stoppageTimer, geofenceEntered, zones,
                    redzoneAlertTriggered, redzoneZone, detourCallStatus,
                    isWaitingForCall, loadCallReq, detourCallReq,
                    unloadingTimer, detourCallOutcome, geofenceFires,
                    stoppageStarts, stoppageHeld, call, detourPost, backend >>

\* the response of /api/directions/detour reaches the polling effect
DetourRouteForPoll(detour) ==
    /\ "poll" \in detourCalcs
    /\ detourCalcs' = detourCalcs \ {"poll"}
    /\ IF detour # NoRoute
       THEN SubstituteDetour(detour)
       ELSE /\ events' = NoEvents
            /\ UNCHANGED << detourRoute, routePath, totalDistanceKm,
                            progress, isSimulating, journeyStatus >>
    /\ staleRequests' = staleRequests \ {"poll"}
    /\ UNCHANGED << selectedJourney, speed, truckPosition, stoppages,
                    currentStoppage, stoppageTimer, geofenceEntered, zones,
                    redzoneAlertTriggered, redzoneZone, isOnDetour,
                    detourCallStatus, isWaitingForCall, mapAlerts,
                    loadCallReq, detourCallReq, unloadingTimer,
                    detourCallOutcome, geofenceFires, stoppageStarts, stoppageHeld,
                    
                    call, detourPost, backend >>

handleContinueOnSameRoute ==
    /\ \E z \in ZoneIds :
          /\ AlertCardShown(z)
          /\ mapAlerts' = CloseAlert(CloseAlert(mapAlerts, z), redzoneZone)
    /\ redzoneZone # NoZone
    /\ selectedJourney # NoJourney
    /\ redzoneAlertTriggered' = NoZone
    /\ events' = AddEvent(NoEvents, "WARNING")
    /\ isSimulating' = TRUE
    /\ journeyStatus' = "AT_RISK"
    /\ UNCHANGED << selectedJourney, speed, progress, routePath,
                    totalDistanceKm, truckPosition, stoppages,
                    currentStoppage, stoppageTimer, geofenceEntered, zones,
                    redzoneZone, detourRoute, isOnDetour, detourCallStatus,
                    isWaitingForCall, loadCallReq, detourCalcs,
                    detourCallReq, unloadingTimer, detourCallOutcome,
                    geofenceFires, stoppageStarts, stoppageHeld, staleRequests,
                    call, detourPost, backend >>

(***************************************************************************)
(* Dashboard: the detour call, the webhook and the status poll             *)
(***************************************************************************)
TriggerResults == {"ok", "error", "unreachable"}

\* triggerDetourCall(zone) for the latched zone, up to its request
triggerDetourCall ==
    /\ selectedJourney # NoJourney
    /\ detourCallStatus # "pending"
    /\ redzoneAlertTriggered # NoZone
    /\ detourCallStatus' = "pending"
    /\ detourCallReq' = TRUE
    /\ events' = NoEvents
    /\ UNCHANGED << selectedJourney, isSimulating, speed, progress,
                    routePath, totalDistanceKm, truckPosition, journeyStatus,
                    stoppages, currentStoppage, stoppageTimer,
                    geofenceEntered, zones, redzoneAlertTriggered,
                    redzoneZone, detourRoute, isOnDetour, isWaitingForCall,
                    mapAlerts, loadCallReq, detourCalcs, unloadingTimer,
                    detourCallOutcome, geofenceFires, stoppageStarts, stoppageHeld,
                    
                    staleRequests, call, detourPost, backend >>

\* POST trigger-detour-call answers: ok = call placed (call log INITIATED,
\* outcome UNKNOWN), error = the calling client failed (call log FAILED,
\* status 500), unreachable = fetch threw
DetourCallResponse(result) ==
    /\ detourCallReq
    /\ detourCallReq' = FALSE
    /\ detourCallOutcome' = CASE result = "ok" -> "UNKNOWN"
                              [] result = "error" -> "FAILED_TO_START"
                              [] OTHER -> detourCallOutcome
    /\ events' = CASE result = "ok" -> AddEvent(NoEvents, "CALL")
                   [] result = "error" -> AddEvent(NoEvents, "ERROR")
                   [] OTHER -> NoEvents
    /\ detourCallStatus' = IF result = "ok" THEN detourCallStatus ELSE "null"
    /\ staleRequests' = staleRequests \ {"detourCall"}
    /\ UNCHANGED << selectedJourney, isSimulating, speed, progress,
                    routePath, totalDistanceKm, truckPosition, journeyStatus,
                    stoppages, currentStoppage, stoppageTimer,
                    geofenceEntered, zones, redzoneAlertTriggered,
                    redzoneZone, detourRoute, isOnDetour, isWaitingForCall,
                    mapAlerts, loadCallReq, detourCalcs, unloadingTimer,
                    geofenceFires, stoppageStarts, stoppageHeld,
                    call, detourPost, backend >>

WebhookOutcomes == {"ACCEPTED", "REJECTED", "NO_ANSWER", "BUSY", "FAILED"}
NonAccepted == WebhookOutcomes \ {"ACCEPTED"}

\* POST /api/ringg/webhook for the placed detour call: the mapped outcome
\* is stored in the call log
Webhook(outcome) ==
    /\ detourCallOutcome = "UNKNOWN"
    /\ detourCallOutcome' = outcome
    /\ events' = NoEvents
    /\ UNCHANGED << selectedJourney, isSimulating, speed, progress,
                    routePath, totalDistanceKm, truckPosition, journeyStatus,
                    stoppages, currentStoppage, stoppageTimer,
                    geofenceEntered, zones, redzoneAlertTriggered,
                    redzoneZone, detourRoute, isOnDetour, detourCallStatus,
                    isWaitingForCall, mapAlerts, loadCallReq, detourCalcs,
                    detourCallReq, unloadingTimer, geofenceFires,
                    stoppageStarts, stoppageHeld,
                    staleRequests, call, detourPost, backend >>

\* GET detour-status: the status reported for the latest detour call log
DetourStatus(outcome) ==
    IF outcome = "none" THEN "pending"
    ELSE IF outcome = "ACCEPTED" THEN "accepted"
    ELSE IF outcome = "REJECTED" \/ outcome = "NO_ANSWER" THEN "rejected"
    ELSE "pending"

\* one round of the polling effect
PollDetourStatus ==
    /\ selectedJourney # NoJourney
    /\ detourCallStatus = "pending"
    /\ LET status == DetourStatus(detourCallOutcome)
       IN  CASE status = "accepted" ->
                  /\ detourCallStatus' = "accepted"
                  /\ isOnDetour' = TRUE
                  /\ IF ZoneById(zones, redzoneAlertTriggered) # 0
                        /\ truckPosition # NoPos
                     THEN detourCalcs' = detourCalcs \cup {"poll"}
                     ELSE UNCHANGED detourCalcs
                  /\ events' = NoEvents
                  /\ UNCHANGED << mapAlerts, isSimulating, journeyStatus >>
             [] status = "rejected" ->
                  /\ detourCallStatus' = "rejected"
                  /\ events' = AddEvent(NoEvents, "WARNING")
                  /\ mapAlerts' = CloseAlert(mapAlerts, redzoneAlertTriggered)
                  /\ isSimulating' = TRUE
                  /\ journeyStatus' = "IN_TRANSIT"
                  /\ UNCHANGED << isOnDetour, detourCalcs >>
             [] OTHER ->
                  /\ events' = NoEvents
                  /\ UNCHANGED << detourCallStatus, isOnDetour, detourCalcs,
                                  mapAlerts, isSimulating, journeyStatus >>
    /\ UNCHANGED << selectedJourney, speed, progress, routePath,
                    totalDistanceKm, truckPosition, stoppages,
                    currentStoppage, stoppageTimer, geofenceEntered, zones,
                    redzoneAlertTriggered, redzoneZone, detourRoute,
                    isWaitingForCall, loadCallReq, detourCallReq,
                    unloadingTimer, detourCallOutcome, geofenceFires,
                    stoppageStarts, stoppageHeld,
                    staleRequests, call, detourPost, backend >>

(***************************************************************************)
(* Dashboard: the load-assignment call and the unloading timer             *)
(***************************************************************************)
\* POST trigger-call answers; the finally block releases isWaitingForCall
LoadCallResponse(result) ==
    /\ loadCallReq
    /\ loadCallReq' = FALSE
    /\ isWaitingForCall' = FALSE
    /\ events' = CASE result = "ok" -> AddEvent(NoEvents, "CALL")
                   [] result = "error" -> AddEvent(NoEvents, "ERROR")
                   [] OTHER -> NoEvents
    /\ staleRequests' = staleRequests \ {"loadCall"}
    /\ UNCHANGED << selectedJourney, isSimulating, speed, progress,
                    routePath, totalDistanceKm, truckPosition, journeyStatus,
                    stoppages, currentStoppage, stoppageTimer,
                    geofenceEntered, zones, redzoneAlertTriggered,
                    redzoneZone, detourRoute, isOnDetour, detourCallStatus,
                    mapAlerts, detourCalcs, detourCallReq, unloadingTimer,
                    detourCallOutcome, geofenceFires, stoppageStarts, stoppageHeld,
                    
                    call, detourPost, backend >>

\* the unloading timeout set at arrival expires; no load is assigned
UnloadingComplete ==
    /\ unloadingTimer
    /\ unloadingTimer' = FALSE
    /\ events' = AddEvent(NoEvents, "STATE_CHANGE")
    /\ journeyStatus' = "COMPLETED"
    /\ staleRequests' = staleRequests \ {"unloading"}
    /\ UNCHANGED << selectedJourney, isSimulating, speed, progress,
                    routePath, totalDistanceKm, truckPosition, stoppages,
                    currentStoppage, stoppageTimer, geofenceEntered, zones,
                    redzoneAlertTriggered, redzoneZone, detourRoute,
                    isOnDetour, detourCallStatus, isWaitingForCall,
                    mapAlerts, loadCallReq, detourCalcs, detourCallReq,
                    detourCallOutcome, geofenceFires, stoppageStarts, stoppageHeld,
                    
                    call, detourPost, backend >>

(***************************************************************************)
(* The dashboard as a state machine.  The page defines triggerDetourCall   *)
(* but no control or effect invokes it, so the detour call and its poll    *)
(* are not steps of the dashboard.                                         *)
(***************************************************************************)
Next ==
    \/ \E j \in Journeys, st \in LoadedStatuses, ok \in BOOLEAN :
          loadJourney(j, st, ok)
    \/ simulationTick
    \/ handleStart
    \/ handlePause
    \/ handleReset
    \/ handleJumpNearDestination
    \/ handleAlertClose
    \/ handleDetourAction
    \/ \E d \in DetourRoutes \cup {NoRoute} : DetourRouteForAction(d)
    \/ handleContinueOnSameRoute
    \/ \E r \in TriggerResults : LoadCallResponse(r)
    \/ UnloadingComplete

Spec == Init /\ [][Next]_vars

(***************************************************************************)
(* The detour call.  AlertRaised is the dashboard state right after the    *)
(* tick that raised the approach alert for zone z1 on the first run of     *)
(* journey j1 (a state of Spec).  From there: triggerDetourCall invoked    *)
(* for the zone of the latched alert, the calling service's webhook, the   *)
(* status poll; the alert itself is left unresolved.  The poll runs on a   *)
(* 2 s interval for as long as the status is pending, hence the weak       *)
(* fairness of PollDetourStatus.                                           *)
(***************************************************************************)
\* capped ticks from the origin: the first progress value in range of a redzone
AlertInRange(p) ==
    FirstRedzone(interpolatePosition(JourneyRoute("j1"), p), ZoneList, 1) # 0

AlertProgress ==
    CHOOSE p \in 0..ProgressOne :
        /\ p % MaxProgressDelta = 0
        /\ AlertInRange(p)
        /\ \A q \in 0..(p - 1) : q % MaxProgressDelta = 0 => ~AlertInRange(q)

AlertRaised ==
    /\ selectedJourney = "j1"
    /\ isSimulating = FALSE
    /\ speed = InitialSpeed
    /\ progress = AlertProgress
    /\ routePath = JourneyRoute("j1")
    /\ totalDistanceKm = JourneyRouteKm("j1")
    /\ truckPosition = interpolatePosition(JourneyRoute("j1"), AlertProgress)
    /\ journeyStatus = "NEAR_DESTINATION"
    /\ stoppages \in { MarkTriggered(st, 2) : st \in GenerateStoppages }
    /\ currentStoppage = NoStoppage
    /\ stoppageTimer = NoTimer
    /\ geofenceEntered = FALSE
    /\ zones = ZoneList
    /\ redzoneAlertTriggered = "z1"
    /\ redzoneZone = "z1"
    /\ detourRoute = NoRoute
    /\ isOnDetour = FALSE
    /\ detourCallStatus = "null"
    /\ isWaitingForCall = FALSE
    /\ mapAlerts = [NoAlerts EXCEPT !["z1"] = 1]
    /\ events = << "WARNING" >>
    /\ loadCallReq = FALSE
    /\ detourCalcs = {}
    /\ detourCallReq = FALSE
    /\ unloadingTimer = FALSE
    /\ detourCallOutcome = "none"
    /\ geofenceFires = 0
    /\ stoppageStarts = << 0, 1 >>
    /\ stoppageHeld \in { << 0, d * InitialSpeed >> : d \in DeltaSeconds }
    /\ staleRequests = {}

InitDetourCall ==
    /\ AlertRaised
    /\ call = NoCall
    /\ detourPost = NoPost
    /\ backend = InitialBackend

NextDetourCall ==
    \/ triggerDetourCall
    \/ \E r \in TriggerResults : DetourCallResponse(r)
    \/ \E o \in WebhookOutcomes : Webhook(o)
    \/ PollDetourStatus
    \/ \E d \in DetourRoutes \cup {NoRoute} : DetourRouteForPoll(d)

SpecDetourCall ==
    InitDetourCall /\ [][NextDetourCall]_vars /\ WF_vars(PollDetourStatus)

(***************************************************************************)
(* The detour route.  From AlertRaised the alert is resolved by the Detour *)
(* button or by an accepted detour call; either caller asks                *)
(* /api/directions/detour for the route.  fetch settles (with a route or   *)
(* with a failure) and the poll runs on its interval, hence the weak       *)
(* fairness of the two answers and of the poll.                            *)
(***************************************************************************)
DetourRouteAnswers == DetourRoutes \cup {NoRoute}

NextDetourRoute ==
    \/ handleDetourAction
    \/ \E d \in DetourRouteAnswers : DetourRouteForAction(d)
    \/ triggerDetourCall
    \/ \E r \in TriggerResults : DetourCallResponse(r)
    \/ \E o \in WebhookOutcomes : Webhook(o)
    \/ PollDetourStatus
    \/ \E d \in DetourRouteAnswers : DetourRouteForPoll(d)

SpecDetourRoute ==
    /\ InitDetourCall
    /\ [][NextDetourRoute]_vars
    /\ WF_vars(\E d \in DetourRouteAnswers : DetourRouteForAction(d))
    /\ WF_vars(\E d \in DetourRouteAnswers : DetourRouteForPoll(d))
    /\ WF_vars(PollDetourStatus)

(***************************************************************************)
(* Journey selection.  From AlertRaised, with two journeys in the list:    *)
(* the alert is resolved either way, the run goes on, and a journey is     *)
(* picked from the list at any moment.                                     *)
(***************************************************************************)
NextSelect ==
    \/ \E j \in ListedJourneys, st \in LoadedStatuses, ok \in BOOLEAN :
          loadJourney(j, st, ok)
    \/ simulationTick
    \/ handleStart
    \/ handleDetourAction
    \/ \E d \in DetourRoutes \cup {NoRoute} : DetourRouteForAction(d)
    \/ handleContinueOnSameRoute

SpecSelect == InitDetourCall /\ [][NextSelect]_vars

(***************************************************************************)
(* A run with stoppages that lie close together.  A journey of 20 km is    *)
(* loaded and started; the ticks go on and the speed is set on the         *)
(* controls.  Two stoppages at one position stand for positions within     *)
(* the window of checkForStoppage of the same progress value.              *)
(***************************************************************************)
ShortJourney == "j3"

\* outcomes of the random generator: the stoppages at one position, with
\* the durations in either order, and stoppages apart
CloseStoppageDraws ==
    { << << 45, 20 >>, << 45, 10 >> >>,
      << << 45, 10 >>, << 45, 20 >> >>,
      << << 45, 12 >>, << 60, 15 >> >> }

\* the speeds chosen on the controls in this run
ChosenSpeeds == {2, 5}

\* onSpeedChange of the controls
setSpeed(option) ==
    /\ ControlsShown
    /\ speed # option
    /\ speed' = option
    /\ events' = NoEvents
    /\ UNCHANGED << selectedJourney, isSimulating, progress, routePath,
                    totalDistanceKm, truckPosition, journeyStatus, stoppages,
                    currentStoppage, stoppageTimer, geofenceEntered, zones,
                    redzoneAlertTriggered, redzoneZone, detourRoute,
                    isOnDetour, detourCallStatus, isWaitingForCall,
                    mapAlerts, loadCallReq, detourCalcs, detourCallReq,
                    unloadingTimer, detourCallOutcome, geofenceFires,
                    stoppageStarts, stoppageHeld, staleRequests, call,
                    detourPost, backend >>

\* the journey was loaded and Start was pressed
StoppageRunStarted ==
    /\ selectedJourney = ShortJourney
    /\ isSimulating = TRUE
    /\ speed = InitialSpeed
    /\ progress = 0
    /\ routePath = JourneyRoute(ShortJourney)
    /\ totalDistanceKm = JourneyRouteKm(ShortJourney)
    /\ truckPosition = JourneyOrigin(ShortJourney)
    /\ journeyStatus = "IN_TRANSIT"
    /\ stoppages \in GenerateStoppagesFrom(CloseStoppageDraws)
    /\ currentStoppage = NoStoppage
    /\ stoppageTimer = NoTimer
    /\ geofenceEntered = FALSE
    /\ zones = ZoneList
    /\ redzoneAlertTriggered = NoZone
    /\ redzoneZone = NoZone
    /\ detourRoute = NoRoute
    /\ isOnDetour = FALSE
    /\ detourCallStatus = "null"
    /\ isWaitingForCall = FALSE
    /\ mapAlerts = NoAlerts
    /\ events = << "STATE_CHANGE" >>
    /\ loadCallReq = FALSE
    /\ detourCalcs = {}
    /\ detourCallReq = FALSE
    /\ unloadingTimer = FALSE
    /\ detourCallOutcome = "none"
    /\ geofenceFires = 0
    /\ stoppageStarts = NoStarts
    /\ stoppageHeld = NoStarts
    /\ staleRequests = {}

InitStoppage ==
    /\ StoppageRunStarted
    /\ call = NoCall
    /\ detourPost = NoPost
    /\ backend = InitialBackend

NextStoppage ==
    \/ simulationTick
    \/ \E option \in ChosenSpeeds : setSpeed(option)

SpecStoppage == InitStoppage /\ [][NextStoppage]_vars

(***************************************************************************)
(* POST /api/directions/detour: the detour route builder.  Indices of the  *)
(* original route count from 1 (the code counts from 0), 0 stands for the  *)
(* code's -1 (not found).                                                  *)
(***************************************************************************)
APPROACH_KM == 10
SAFE_KM == 15
CLEARANCE_KM == 3
ENTRY_LOOKBACK == 20
ENTRY_DEFAULT_BACK == 15
EXIT_LOOKAHEAD == 20
EXIT_DEFAULT_AHEAD == 10
MIN_AVOID_KM == 8
RADIUS_MARGIN_KM == 5
TestOffsets == << 0, 3, 6, 10, 15, 20 >>
FALLBACK_KM == 40
STRICTER_KM == 35
SIMPLE_AVOID_KM == 20

Max(a, b) == IF a >= b THEN a ELSE b

ZoneUsable(zone) == Len(zone.coordinates) >= 3

\* the first index of the route at the least distance from origin: the loop
\* replaces startIndex only by a strictly nearer point
IsNearest(origin, route, i) ==
    \A j \in 1..Len(route) :
        /\ calculateDistance(origin, route[i])
               <= calculateDistance(origin, route[j])
        /\ j < i => calculateDistance(origin, route[j])
                        > calculateDistance(origin, route[i])

StartIndex(origin, route) ==
    CHOOSE i \in 1..Len(route) : IsNearest(origin, route, i)

\* the least index of a set of indices, 0 (the code's -1) for the empty set
LeastOr0(indices) ==
    IF indices = {} THEN 0
    ELSE CHOOSE i \in indices : \A j \in indices : i <= j

\* the first j in from..to with route[j] more than SAFE_KM from the zone, else 0
FirstSafe(route, zone, from, to) ==
    LeastOr0({ j \in from..to :
                 distanceToPolygon(route[j], zone.coordinates) > SAFE_KM })

\* the first i from startIndex on with route[i] within APPROACH_KM, else 0
FirstNear(route, zone, startIndex) ==
    LeastOr0({ i \in startIndex..Len(route) :
                 distanceToPolygon(route[i], zone.coordinates) <= APPROACH_KM })

OrElse(j, default) == IF j # 0 THEN j ELSE default

\* mutant of EntryAt: the look-back is not held at startIndex
EntryAtFromRouteStart(route, zone, startIndex, i) ==
    OrElse(FirstSafe(route, zone, Max(1, i - ENTRY_LOOKBACK), i - 1),
           Max(1, i - ENTRY_DEFAULT_BACK))

EntryAt(route, zone, startIndex, i) ==
    OrElse(FirstSafe(route, zone, Max(startIndex, i - ENTRY_LOOKBACK), i - 1),
           Max(startIndex, i - ENTRY_DEFAULT_BACK))

ExitAt(route, zone, i) ==
    OrElse(FirstSafe(route, zone, i, Min(Len(route), i + EXIT_LOOKAHEAD - 1)),
           Min(Len(route), i + EXIT_DEFAULT_AHEAD))

\* the exit is looked for at the first point from the entry's point on that
\* is more than SAFE_KM from the zone; there the loop ends
ExitFrom(route, zone, away) ==
    IF away = 0 THEN 0 ELSE ExitAt(route, zone, away)

\* the entry is set once, at the first point within APPROACH_KM
ScanFrom(route, zone, startIndex, near) ==
    IF near = 0 THEN << 0, 0 >>
    ELSE << EntryAt(route, zone, startIndex, near),
            ExitFrom(route, zone, FirstSafe(route, zone, near, Len(route))) >>

\* the loop over the route from startIndex; the result is << entry, exit >>
ScanRoute(route, zone, startIndex) ==
    ScanFrom(route, zone, startIndex, FirstNear(route, zone, startIndex))

\* an exit that was not found is set 30% of the rest of the route further on
OpenEnd(found, last) ==
    IF found[1] # 0 /\ found[2] = 0
    THEN << found[1], Min(last, found[1] + ((last - found[1] + 1) * 3) \div 10) >>
    ELSE found

\* entry and exit of a zone, with the exit of an open end set further along
EntryExit(route, zone, startIndex) ==
    OpenEnd(ScanRoute(route, zone, startIndex), Len(route))

\* the segment of a zone, when entry and exit were found in this order
SegmentOf(route, zone, found) ==
    IF ZoneUsable(zone) /\ found[1] # 0 /\ found[2] # 0 /\ found[2] > found[1]
    THEN << [entryIndex |-> found[1], exitIndex |-> found[2],
             entry |-> route[found[1]], exit |-> route[found[2]],
             zone |-> zone] >>
    ELSE << >>

RECURSIVE SegmentsOf(_, _, _, _)
SegmentsOf(route, avoidZones, startIndex, k) ==
    IF k > Len(avoidZones) THEN << >>
    ELSE SegmentOf(route, avoidZones[k],
                   EntryExit(route, avoidZones[k], startIndex))
         \o SegmentsOf(route, avoidZones, startIndex, k + 1)

\* Array.prototype.sort is stable: insertion by entryIndex keeps the order
\* of segments with equal entryIndex
RECURSIVE InsertSegment(_, _)
InsertSegment(sorted, segment) ==
    IF sorted = << >> THEN << segment >>
    ELSE IF segment.entryIndex < Head(sorted).entryIndex
         THEN << segment >> \o sorted
    ELSE << Head(sorted) >> \o InsertSegment(Tail(sorted), segment)

RECURSIVE SortSegments(_, _)
SortSegments(segments, k) ==
    IF k = 0 THEN << >>
    ELSE InsertSegment(SortSegments(segments, k - 1), segments[k])

ZoneSegments(route, avoidZones, startIndex) ==
    LET found == SegmentsOf(route, avoidZones, startIndex, 1)
    IN  SortSegments(found, Len(found))

\* the mean of the coordinates of the zone
RECURSIVE SumX(_, _)
SumX(coordinates, k) ==
    IF k = 0 THEN 0 ELSE coordinates[k].x + SumX(coordinates, k - 1)

RECURSIVE SumY(_, _)
SumY(coordinates, k) ==
    IF k = 0 THEN 0 ELSE coordinates[k].y + SumY(coordinates, k - 1)

ZoneCenter(zone) ==
    LET n == Len(zone.coordinates)
    IN  Pt(SumX(zone.coordinates, n) \div n, SumY(zone.coordinates, n) \div n)

RECURSIVE MaxZoneRadius(_, _, _)
MaxZoneRadius(zoneCenter, coordinates, k) ==
    IF k = 0 THEN 0
    ELSE Max(calculateDistance(zoneCenter, coordinates[k]),
             MaxZoneRadius(zoneCenter, coordinates, k - 1))

\* calculateBearing as a direction on the plane (x east, y north); the
\* bearing of a point to itself is 0 degrees, north
calculateBearing(start, end) ==
    IF start = end THEN Pt(0, 1) ELSE Pt(end.x - start.x, end.y - start.y)

\* bearing - 90 and bearing + 90 degrees
BearingLeft(bearing) == Pt(-bearing.y, bearing.x)
BearingRight(bearing) == Pt(bearing.y, -bearing.x)

\* the point distanceKm from start along the direction, to the kilometre
calculateDestination(start, bearing, distanceKm) ==
    LET len == CeilSqrt(bearing.x * bearing.x + bearing.y * bearing.y)
    IN  Pt(start.x + (distanceKm * bearing.x) \div len,
           start.y + (distanceKm * bearing.y) \div len)

\* every point of the path is more than CLEARANCE_KM from every usable zone
PathIsValid(path, avoidZones) ==
    \A k \in 1..Len(avoidZones) :
        ZoneUsable(avoidZones[k]) =>
            \A p \in 1..Len(path) :
                distanceToPolygon(path[p], avoidZones[k].coordinates)
                    > CLEARANCE_KM

\* the 12 candidates of a segment in the order tested: offsets from the
\* smallest, left before right
CandidateCount == 2 * Len(TestOffsets)

CandidateWaypoint(segment, k) ==
    LET zoneCenter == ZoneCenter(segment.zone)
        minDistance ==
            Max(MIN_AVOID_KM,
                MaxZoneRadius(zoneCenter, segment.zone.coordinates,
                              Len(segment.zone.coordinates)) + RADIUS_MARGIN_KM)
        avoidDistance == minDistance + TestOffsets[(k + 1) \div 2]
        routeBearing == calculateBearing(segment.entry, segment.exit)
    IN  IF k % 2 = 1
        THEN calculateDestination(zoneCenter, BearingLeft(routeBearing),
                                  avoidDistance)
        ELSE calculateDestination(zoneCenter, BearingRight(routeBearing),
                                  avoidDistance)

RECURSIVE MinDistToZones(_, _, _)
MinDistToZones(point, avoidZones, k) ==
    IF k = 0 THEN Infinity
    ELSE LET rest == MinDistToZones(point, avoidZones, k - 1)
         IN  IF ZoneUsable(avoidZones[k])
             THEN Min(rest, distanceToPolygon(point, avoidZones[k].coordinates))
             ELSE rest

\* of the two waypoints at avoidDistance the one further from all zones,
\* the right one on a tie
SaferWaypoint(segment, avoidZones, avoidDistance) ==
    LET zoneCenter == ZoneCenter(segment.zone)
        routeBearing == calculateBearing(segment.entry, segment.exit)
        left == calculateDestination(zoneCenter, BearingLeft(routeBearing),
                                     avoidDistance)
        right == calculateDestination(zoneCenter, BearingRight(routeBearing),
                                      avoidDistance)
    IN  IF MinDistToZones(left, avoidZones, Len(avoidZones))
              > MinDistToZones(right, avoidZones, Len(avoidZones))
        THEN left ELSE right

\* without an original route: one waypoint per usable zone, SIMPLE_AVOID_KM
\* from its centre, on the side nearer the destination (the right on a tie)
RECURSIVE SimpleWaypoints(_, _, _, _)
SimpleWaypoints(origin, destination, avoidZones, k) ==
    IF k > Len(avoidZones) THEN << >>
    ELSE LET rest == SimpleWaypoints(origin, destination, avoidZones, k + 1)
             zoneCenter == ZoneCenter(avoidZones[k])
             bearingToDest == calculateBearing(origin, destination)
             waypointLeft ==
                 calculateDestination(zoneCenter, BearingLeft(bearingToDest),
                                      SIMPLE_AVOID_KM)
             waypointRight ==
                 calculateDestination(zoneCenter, BearingRight(bearingToDest),
                                      SIMPLE_AVOID_KM)
         IN  IF ~ZoneUsable(avoidZones[k]) THEN rest
             ELSE IF calculateDistance(waypointLeft, destination)
                        < calculateDistance(waypointRight, destination)
                  THEN << waypointLeft >> \o rest
             ELSE << waypointRight >> \o rest

(***************************************************************************)
(* The requests the builder is given and the answers of the routing        *)
(* service.  The road runs along y = 0 from x = 0 to x = 100; zone za      *)
(* lies on it at x = 50, zone zb lies north of za where the nearest left   *)
(* waypoints of za fall, zc has too few coordinates to be a polygon.       *)
(***************************************************************************)
BuilderZoneA ==
    [id |-> "za", category |-> "THEFT",
     coordinates |-> << Pt(48, -2), Pt(52, -2), Pt(50, 4) >>]
BuilderZoneB ==
    [id |-> "zb", category |-> "HIGH_RISK",
     coordinates |-> << Pt(48, 13), Pt(52, 13), Pt(50, 16) >>]
BuilderZoneC ==
    [id |-> "zc", category |-> "THEFT",
     coordinates |-> << Pt(50, 0), Pt(52, 0) >>]

BuilderZoneLists ==
    { << >>, << BuilderZoneA >>, << BuilderZoneB, BuilderZoneA >>,
      << BuilderZoneC >> }

\* original routes: a point every 10 km, a point every 2 km, a route that
\* ends next to the zone, no route given
CoarseRoute == [i \in 1..11 |-> Pt(10 * (i - 1), 0)]
FineRoute == [i \in 1..51 |-> Pt(2 * (i - 1), 0)]
EndingRoute == << Pt(0, 0), Pt(20, 0), Pt(40, 0), Pt(45, 0) >>
BuilderRoutes == { CoarseRoute, FineRoute, EndingRoute, NoRoute }

\* truck positions: at the start, on the way, within 10 km of the zone,
\* beyond the zone, off the route
BuilderOrigins == { Pt(0, 0), Pt(20, 0), Pt(44, 0), Pt(80, 0), Pt(20, 5) }
BuilderDestination == Pt(100, 0)

DetourRequests ==
    [origin : BuilderOrigins, destination : {BuilderDestination},
     avoidZones : BuilderZoneLists, originalRoute : BuilderRoutes]

\* an answer of the routing service: a non-OK response, a response without
\* routes, a network error, or a route with its path and its distance
RoutedDistances == {100, 200}
RouterFailures ==
    { [kind |-> k, path |-> NoRoute, distance |-> 0] :
        k \in {"notOk", "empty", "throw"} }

\* the service knows no zones: its road may run through the middle of za
RoadPoint == Pt(50, 0)

\* the paths the service may answer for a request through the given points:
\* through all of them, straight from the first to the last, or, between
\* points on either side of za, from the first to the last along the road
RouterPaths(points) ==
    { points, << points[1], points[Len(points)] >> }
        \cup IF points[1].x < RoadPoint.x /\ RoadPoint.x < points[Len(points)].x
             THEN { << points[1], RoadPoint, points[Len(points)] >> }
             ELSE {}

RouterAnswers(points) ==
    RouterFailures \cup
    { [kind |-> "route", path |-> p, distance |-> d] :
        p \in RouterPaths(points), d \in RoutedDistances }

\* path.slice(1) and path.slice(1, -1)
SliceFrom1(path) == IF Len(path) <= 1 THEN << >> ELSE SubSeq(path, 2, Len(path))
SliceInner(path) ==
    IF Len(path) <= 2 THEN << >> ELSE SubSeq(path, 2, Len(path) - 1)

(***************************************************************************)
(* The handler as a process: it runs from one request of the routing       *)
(* service to the next; detourPost holds its locals and, in pc, the        *)
(* request it awaits.  History fields: firstValidated (per routed          *)
(* distance the first candidate of the segment that validated with it),    *)
(* bestIndex (the candidate bestRoute came from), choices (per segment the *)
(* candidate used, 0 for the 40 km fallback, with firstValidated),         *)
(* passes (assemblies of a route), finalValid (the result of the final     *)
(* validation, which the code only logs).                                  *)
(***************************************************************************)
NoResponse == [status |-> 0, routes |-> << >>]
NoneValidated == [d \in RoutedDistances |-> 0]

Received(request) ==
    [pc |-> "received", request |-> request, startIndex |-> 0,
     zoneSegments |-> << >>, routeSegments |-> << >>, routeIndex |-> 0,
     seg |-> 0, cand |-> 0, bestRoute |-> NoRoute, bestDistance |-> Infinity,
     waypoints |-> << >>, response |-> NoResponse,
     firstValidated |-> NoneValidated, bestIndex |-> 0, choices |-> << >>,
     passes |-> 0, finalValid |-> TRUE]

Respond(st, status, routes) ==
    [st EXCEPT !.pc = "done",
               !.response = [status |-> status, routes |-> routes]]

\* final validation (logged) and the answer with the assembled route;
\* routeSegments holds at least the origin
FinishAssembled(st, pushed) ==
    LET route == st.routeSegments \o pushed
    IN  Respond([st EXCEPT !.routeSegments = route,
                           !.passes = 1,
                           !.finalValid =
                               PathIsValid(route, st.request.avoidZones)],
                200, << route >>)

\* after the last segment: the rest of the way to the destination
TailOf(st) ==
    LET route == st.request.originalRoute
        destination == st.request.destination
    IN  IF Len(st.zoneSegments) > 0
        THEN IF st.zoneSegments[Len(st.zoneSegments)].exitIndex < Len(route)
             THEN [st EXCEPT !.pc = "exitToDest"]
             ELSE FinishAssembled(st, << destination >>)
        ELSE FinishAssembled(st, SliceFrom1(route) \o << destination >>)

\* the next zone segment: the original route up to its entry, then the
\* candidate loop; after the last segment the tail
EnterSegment(st) ==
    IF st.seg >= Len(st.zoneSegments) THEN TailOf(st)
    ELSE LET segment == st.zoneSegments[st.seg + 1]
             route == st.request.originalRoute
             ahead == st.routeIndex < segment.entryIndex
             from == Max(st.routeIndex + 1, st.startIndex + 1)
         IN  [st EXCEPT
                 !.seg = @ + 1,
                 !.routeSegments =
                     IF ahead THEN @ \o SubSeq(route, from, segment.entryIndex)
                     ELSE @,
                 !.routeIndex = IF ahead THEN segment.entryIndex ELSE @,
                 !.cand = 1,
                 !.bestRoute = NoRoute,
                 !.bestDistance = Infinity,
                 !.firstValidated = NoneValidated,
                 !.bestIndex = 0,
                 !.pc = "candidate"]

LeaveSegment(st, pushed, used) ==
    EnterSegment(
        [st EXCEPT !.routeSegments = @ \o pushed,
                   !.routeIndex = st.zoneSegments[st.seg].exitIndex,
                   !.choices = Append(@, [used |-> used,
                                          firstValidated |-> st.firstValidated])])

\* the request arrives: everything up to the first routing request
Begin(request) ==
    LET st == Received(request)
        origin == request.origin
        route == request.originalRoute
    IN  IF Len(request.avoidZones) = 0 THEN [st EXCEPT !.pc = "plain"]
        ELSE IF Len(route) > 0
        THEN LET startIndex == StartIndex(origin, route)
                 started ==
                     [st EXCEPT
                         !.startIndex = startIndex,
                         !.zoneSegments =
                             ZoneSegments(route, request.avoidZones, startIndex),
                         !.routeIndex = startIndex,
                         !.routeSegments = << origin >>]
             IN  IF calculateDistance(origin, route[startIndex]) > 0
                 THEN [started EXCEPT !.pc = "connector"]
                 ELSE EnterSegment(started)
        ELSE [st EXCEPT !.waypoints =
                            SimpleWaypoints(origin, request.destination,
                                            request.avoidZones, 1),
                        !.pc = "main"]

\* the points of the routing request the handler awaits
RequestPoints(st) ==
    LET request == st.request
        route == request.originalRoute
        segment == st.zoneSegments[st.seg]
    IN  CASE st.pc = "connector" -> << request.origin, route[st.startIndex] >>
          [] st.pc = "candidate" ->
                << segment.entry, CandidateWaypoint(segment, st.cand),
                   segment.exit >>
          [] st.pc = "fallback" ->
                << segment.entry,
                   SaferWaypoint(segment, request.avoidZones, FALLBACK_KM),
                   segment.exit >>
          [] st.pc = "exitToDest" ->
                << route[st.zoneSegments[Len(st.zoneSegments)].exitIndex],
                   request.destination >>
          [] st.pc = "main" ->
                << request.origin >> \o st.waypoints \o << request.destination >>
          [] OTHER -> << request.origin, request.destination >>

\* the connector from the origin to the nearest route point
AfterConnector(st, a) ==
    EnterSegment([st EXCEPT !.routeSegments =
                                IF a.kind = "route" THEN @ \o SliceInner(a.path)
                                ELSE @])

\* mutant of ShorterThanBest: a tie replaces the best route
NotLongerThanBest(totalDist, bestDistance) == totalDist <= bestDistance

ShorterThanBest(totalDist, bestDistance) == totalDist < bestDistance

\* one candidate of the loop; after the last one the best route or the
\* fallback request
AfterCandidate(st, a) ==
    LET isValid == a.kind = "route" /\ PathIsValid(a.path, st.request.avoidZones)
        better == isValid /\ ShorterThanBest(a.distance, st.bestDistance)
        tested ==
            [st EXCEPT
                !.bestRoute = IF better THEN a.path ELSE @,
                !.bestDistance = IF better THEN a.distance ELSE @,
                !.bestIndex = IF better THEN st.cand ELSE @,
                !.firstValidated =
                    IF isValid /\ @[a.distance] = 0
                    THEN [@ EXCEPT ![a.distance] = st.cand] ELSE @]
    IN  IF st.cand < CandidateCount THEN [tested EXCEPT !.cand = @ + 1]
        ELSE IF tested.bestRoute # NoRoute
             THEN LeaveSegment(tested, SliceFrom1(tested.bestRoute),
                               tested.bestIndex)
        ELSE [tested EXCEPT !.pc = "fallback"]

\* the 40 km fallback, used as it comes
AfterFallback(st, a) ==
    LET segment == st.zoneSegments[st.seg]
        fallbackWaypoint ==
            SaferWaypoint(segment, st.request.avoidZones, FALLBACK_KM)
    IN  LeaveSegment(st,
                     IF a.kind = "route" THEN SliceFrom1(a.path)
                     ELSE << fallbackWaypoint, segment.exit >>,
                     0)

\* from the last exit to the destination
AfterExitToDest(st, a) ==
    LET route == st.request.originalRoute
        lastExitIndex == st.zoneSegments[Len(st.zoneSegments)].exitIndex
    IN  FinishAssembled(st,
            CASE a.kind = "route" -> SliceFrom1(a.path)
              [] a.kind = "throw" ->
                    SubSeq(route, lastExitIndex + 1, Len(route))
                        \o << st.request.destination >>
              [] OTHER -> << >>)

\* what the service answered is passed on; a network error ends in the catch
PassOn(st, a) ==
    CASE a.kind = "throw" -> Respond(st, 500, << >>)
      [] a.kind = "route" -> Respond(st, 200, << a.path >>)
      [] OTHER -> Respond(st, 200, << >>)

\* the pass with STRICTER_KM waypoints is inside the branch that runs only
\* without an original route, under a condition that needs one
StricterPass(st) ==
    /\ Len(st.request.originalRoute) > 0
    /\ Len(st.zoneSegments) > 0

\* without an original route: the route through the simple waypoints
AfterMain(st, a) ==
    CASE a.kind \in {"notOk", "throw"} -> Respond(st, 500, << >>)
      [] a.kind = "empty" -> [st EXCEPT !.pc = "fallbackB"]
      [] OTHER ->
            LET routeIsValid == PathIsValid(a.path, st.request.avoidZones)
                checked == [st EXCEPT !.finalValid = routeIsValid,
                                      !.passes = 1]
            IN  IF ~routeIsValid /\ Len(st.waypoints) > 0 /\ StricterPass(st)
                THEN [checked EXCEPT !.pc = "stricter", !.passes = 2]
                ELSE Respond(checked, 200, << a.path >>)

\* POST arrives; requests share no state, so one request is followed
ReceiveDetourRequest ==
    /\ detourPost.pc = "idle"
    /\ \E request \in DetourRequests : detourPost' = Begin(request)
    /\ UNCHANGED << dashVars, call, backend >>

Awaits(pc) ==
    /\ detourPost.pc = pc
    /\ UNCHANGED << dashVars, call, backend >>

RouteConnector ==
    /\ Awaits("connector")
    /\ \E a \in RouterAnswers(RequestPoints(detourPost)) :
          detourPost' = AfterConnector(detourPost, a)

RouteCandidate ==
    /\ Awaits("candidate")
    /\ \E a \in RouterAnswers(RequestPoints(detourPost)) :
          detourPost' = AfterCandidate(detourPost, a)

RouteFallback ==
    /\ Awaits("fallback")
    /\ \E a \in RouterAnswers(RequestPoints(detourPost)) :
          detourPost' = AfterFallback(detourPost, a)

RouteExitToDest ==
    /\ Awaits("exitToDest")
    /\ \E a \in RouterAnswers(RequestPoints(detourPost)) :
          detourPost' = AfterExitToDest(detourPost, a)

\* no zones to avoid: the plain route
RoutePlain ==
    /\ Awaits("plain")
    /\ \E a \in RouterAnswers(RequestPoints(detourPost)) :
          detourPost' = PassOn(detourPost, a)

RouteMain ==
    /\ Awaits("main")
    /\ \E a \in RouterAnswers(RequestPoints(detourPost)) :
          detourPost' = AfterMain(detourPost, a)

\* the route without waypoints, after an answer without routes
RouteFallbackB ==
    /\ Awaits("fallbackB")
    /\ \E a \in RouterAnswers(RequestPoints(detourPost)) :
          detourPost' = PassOn(detourPost, a)

NextBuilder ==
    \/ ReceiveDetourRequest
    \/ RouteConnector
    \/ RouteCandidate
    \/ RouteFallback
    \/ RouteExitToDest
    \/ RoutePlain
    \/ RouteMain
    \/ RouteFallbackB

SpecBuilder == Init /\ [][NextBuilder]_vars

(***************************************************************************)
(* Calls of the pure helpers of lib/simulation.ts, on arguments drawn from *)
(* the sets below; updateProgress is also called on its own last result.   *)
(***************************************************************************)
CallProgress == {0, 1, 44, 45, 46, 47, 198, 199, 200}
CallDeltaSeconds == {1, 3}
CallTotalKm == {50, 1000}
CallSpeeds == {1, 5, 20, InitialSpeed}
CallStoppagePositions == {45, 46, 47}
CallCheckProgress == 43..49

CallUpdateProgress ==
    /\ \E currentProgress \in CallProgress \cup
                              (IF call.fn = "updateProgress"
                               THEN {call.result} ELSE {}),
          deltaTimeSeconds \in CallDeltaSeconds,
          total \in CallTotalKm,
          speedMultiplier \in CallSpeeds :
          call' = [fn |-> "updateProgress",
                   args |-> << currentProgress, deltaTimeSeconds, total,
                               speedMultiplier, BASE_SPEED_KMH >>,
                   result |-> updateProgress(currentProgress, deltaTimeSeconds,
                                             total, speedMultiplier,
                                             BASE_SPEED_KMH)]
    /\ UNCHANGED << dashVars, detourPost, backend >>

\* sorted lists of StoppageCount stoppages, triggered or not
CallStoppageLists ==
    { st \in [1..StoppageCount ->
                [position : CallStoppagePositions, duration : {15},
                 triggered : BOOLEAN]] :
        \A i \in 1..(StoppageCount - 1) : st[i].position <= st[i + 1].position }

\* stoppagesAfter: the list as the call leaves it (the function only reads)
CallCheckForStoppage ==
    /\ \E prog \in CallCheckProgress, stops \in CallStoppageLists :
          call' = [fn |-> "checkForStoppage",
                   args |-> << prog, stops >>,
                   result |-> checkForStoppage(prog, stops),
                   stoppagesAfter |-> stops]
    /\ UNCHANGED << dashVars, detourPost, backend >>

NextHelpers ==
    \/ CallUpdateProgress
    \/ CallCheckForStoppage

SpecHelpers == Init /\ [][NextHelpers]_vars

(***************************************************************************)
(* Calls of calculateETA and updateProgress with speeds of either sign     *)
(***************************************************************************)
\* remainingDistanceKm / (baseSpeedKmh * speedMultiplier) * 60, in whole
\* minutes; a division by zero gives Infinity, 0 / 0 gives NaN
calculateETA(remainingDistanceKm, baseSpeedKmh, speedMultiplier) ==
    LET adjustedSpeed == baseSpeedKmh * speedMultiplier
    IN  IF adjustedSpeed = 0
        THEN IF remainingDistanceKm = 0
             THEN [kind |-> "NaN", value |-> 0]
             ELSE [kind |-> "Infinity", value |-> 0]
        ELSE [kind |-> "number",
              value |-> (remainingDistanceKm * 60) \div adjustedSpeed]

SpeedMultipliers == {-1, 0, 1, InitialSpeed}
BaseSpeeds == {-BASE_SPEED_KMH, 0, BASE_SPEED_KMH}
RemainingKm == {0, 50, 200}
SpeedCallProgress == {0, 100, 200}

\* thrown: the error the call ended with, "none" when it returned
CallCalculateETA ==
    /\ \E remainingDistanceKm \in RemainingKm,
          baseSpeedKmh \in BaseSpeeds,
          speedMultiplier \in SpeedMultipliers :
          call' = [fn |-> "calculateETA",
                   args |-> << remainingDistanceKm >>,
                   baseSpeedKmh |-> baseSpeedKmh,
                   speedMultiplier |-> speedMultiplier,
                   thrown |-> "none",
                   result |-> calculateETA(remainingDistanceKm, baseSpeedKmh,
                                           speedMultiplier)]
    /\ UNCHANGED << dashVars, detourPost, backend >>

CallUpdateProgressAtSpeed ==
    /\ \E currentProgress \in SpeedCallProgress,
          deltaTimeSeconds \in CallDeltaSeconds,
          total \in CallTotalKm,
          baseSpeedKmh \in BaseSpeeds,
          speedMultiplier \in SpeedMultipliers :
          call' = [fn |-> "updateProgress",
                   args |-> << currentProgress, deltaTimeSeconds, total >>,
                   baseSpeedKmh |-> baseSpeedKmh,
                   speedMultiplier |-> speedMultiplier,
                   thrown |-> "none",
                   result |-> [kind |-> "number",
                               value |-> updateProgress(currentProgress,
                                                        deltaTimeSeconds, total,
                                                        speedMultiplier,
                                                        baseSpeedKmh)]]
    /\ UNCHANGED << dashVars, detourPost, backend >>

NextSpeed ==
    \/ CallCalculateETA
    \/ CallUpdateProgressAtSpeed

SpecSpeed == Init /\ [][NextSpeed]_vars

(***************************************************************************)
(* Backend: POST /api/journeys/[id]/trigger-call and POST                  *)
(* /api/ringg/webhook.  Each handler runs from one await on the database   *)
(* or on the calling service to the next; handlers of different requests   *)
(* interleave at these points.  The simulationEvent rows are not kept.     *)
(***************************************************************************)
MaxCallLogs == 2

\* where the trucks are going and where the loads wait
DriverDestination(j) == IF j = "a" THEN Pt(200, 0) ELSE Pt(205, 0)
LoadPickup(l) == IF l = "l1" THEN Pt(210, 0) ELSE Pt(230, 0)
LoadOrder == << "l1", "l2" >>       \* the order findMany returns the rows in

DeclinedOutcomes == {"REJECTED", "NO_ANSWER", "FAILED", "BUSY"}
WebhookCallOutcomes == {"ACCEPTED", "REJECTED", "NO_ANSWER", "BUSY"}

\* what initiateCall does: the call is placed and its id returned, the
\* service refuses (success: false), or the configuration is missing (throws)
RinggResults == {"placed", "failed", "throws"}

TriggerOf(j) == backend.trigger[j]

SetTrigger(j, t) == [backend EXCEPT !.trigger[j] = t]

\* the handler returns, and nothing of it is left but its answer
TriggerRespond(t, status, success) ==
    [IdleTrigger EXCEPT !.pc = "done", !.ringg = t.ringg,
                        !.status = status, !.success = success]

\* the request arrives; one request per journey is at work at a time
ReceiveTriggerCall(j) ==
    /\ TriggerOf(j).pc \in {"idle", "done"}
    /\ Len(backend.callLogs) < MaxCallLogs
    /\ backend' = SetTrigger(j, [IdleTrigger EXCEPT !.pc = "journey"])
    /\ UNCHANGED << dashVars, call, detourPost >>

\* journey.findUnique and the test of assignedLoadId
TriggerReadJourney(j) ==
    /\ TriggerOf(j).pc = "journey"
    /\ backend' =
           SetTrigger(j, IF backend.assignedLoadId[j] # NoLoad
                         THEN TriggerRespond(TriggerOf(j), 400, FALSE)
                         ELSE [TriggerOf(j) EXCEPT !.pc = "exhausted"])
    /\ UNCHANGED << dashVars, call, detourPost >>

\* the loads of this journey's call logs with an outcome that declines
ExhaustedIds(j) ==
    { backend.callLogs[k].loadId :
        k \in { i \in 1..Len(backend.callLogs) :
                  /\ backend.callLogs[i].journeyId = j
                  /\ backend.callLogs[i].outcome \in DeclinedOutcomes } }

\* callLog.findMany
TriggerReadExhausted(j) ==
    /\ TriggerOf(j).pc = "exhausted"
    /\ backend' = SetTrigger(j, [TriggerOf(j) EXCEPT
                                    !.exhausted = ExhaustedIds(j),
                                    !.pc = "available"])
    /\ UNCHANGED << dashVars, call, detourPost >>

AvailableLoads(exhaustedIds) ==
    SelectSeq(LoadOrder,
              LAMBDA l : backend.loads[l] = "AVAILABLE" /\ l \notin exhaustedIds)

\* the first load of the list at the least distance from the destination
RECURSIVE NearestLoad(_, _, _, _)
NearestLoad(j, availableLoads, i, nearestLoad) ==
    IF i > Len(availableLoads) THEN nearestLoad
    ELSE IF calculateDistance(DriverDestination(j), LoadPickup(availableLoads[i]))
              < calculateDistance(DriverDestination(j), LoadPickup(nearestLoad))
         THEN NearestLoad(j, availableLoads, i + 1, availableLoads[i])
    ELSE NearestLoad(j, availableLoads, i + 1, nearestLoad)

\* load.findMany; without a load the answer is 404
TriggerFindLoads(j) ==
    /\ TriggerOf(j).pc = "available"
    /\ backend' =
           SetTrigger(j,
               IF Len(AvailableLoads(TriggerOf(j).exhausted)) = 0
               THEN TriggerRespond(TriggerOf(j), 404, FALSE)
               ELSE [TriggerOf(j) EXCEPT
                        !.nearestLoad =
                            NearestLoad(j, AvailableLoads(TriggerOf(j).exhausted),
                                        2,
                                        AvailableLoads(TriggerOf(j).exhausted)[1]),
                        !.pc = "offer"])
    /\ UNCHANGED << dashVars, call, detourPost >>

\* load.update: OFFERED
TriggerOfferLoad(j) ==
    /\ TriggerOf(j).pc = "offer"
    /\ backend' = [backend EXCEPT
                      !.loads[TriggerOf(j).nearestLoad] = "OFFERED",
                      !.trigger[j].pc = "log"]
    /\ UNCHANGED << dashVars, call, detourPost >>

\* callLog.create; the id of a call log is its index
TriggerCreateLog(j) ==
    /\ TriggerOf(j).pc = "log"
    /\ backend' = [backend EXCEPT
                      !.callLogs =
                          Append(@, [journeyId |-> j,
                                     loadId |-> TriggerOf(j).nearestLoad,
                                     status |-> "INITIATED",
                                     outcome |-> "UNKNOWN",
                                     ringgCallId |-> NoCallId]),
                      !.trigger[j].callLog = Len(backend.callLogs) + 1,
                      !.trigger[j].pc = "call"]
    /\ UNCHANGED << dashVars, call, detourPost >>

\* initiateCall; an error it throws ends in the handler's catch
TriggerInitiateCall(j, result) ==
    /\ TriggerOf(j).pc = "call"
    /\ backend' =
           SetTrigger(j,
               IF result = "throws"
               THEN TriggerRespond([TriggerOf(j) EXCEPT !.ringg = result],
                                   500, FALSE)
               ELSE [TriggerOf(j) EXCEPT !.ringg = result, !.pc = "update"])
    /\ UNCHANGED << dashVars, call, detourPost >>

\* callLog.update with the id of the call, which is the id of the call log
\* here, and the answer; the answer says success: true either way
TriggerUpdateLog(j) ==
    /\ TriggerOf(j).pc = "update"
    /\ backend' =
           [backend EXCEPT
               !.callLogs[TriggerOf(j).callLog].ringgCallId =
                   IF TriggerOf(j).ringg = "placed" THEN TriggerOf(j).callLog
                   ELSE NoCallId,
               !.trigger[j] = TriggerRespond(TriggerOf(j), 200, TRUE)]
    /\ UNCHANGED << dashVars, call, detourPost >>

\* the first call log with the ringgCallId of the webhook, 0 for none
CallLogOf(callId) ==
    LeastOr0({ k \in 1..Len(backend.callLogs) :
                 backend.callLogs[k].ringgCallId = callId })

\* the webhook arrives and its call log is found (404 otherwise); the
\* deliveries are handled one after the other
ReceiveWebhook(callId, outcome) ==
    /\ backend.webhook.pc = "idle"
    /\ CallLogOf(callId) # 0
    /\ backend' =
           [backend EXCEPT
               !.webhook =
                   [pc |-> "log", callLog |-> CallLogOf(callId),
                    journeyId |-> backend.callLogs[CallLogOf(callId)].journeyId,
                    loadId |-> backend.callLogs[CallLogOf(callId)].loadId,
                    outcome |-> outcome]]
    /\ UNCHANGED << dashVars, call, detourPost >>

\* callLog.update: COMPLETED with the outcome
WebhookUpdateLog ==
    /\ backend.webhook.pc = "log"
    /\ backend' =
           [backend EXCEPT
               !.callLogs[backend.webhook.callLog].status = "COMPLETED",
               !.callLogs[backend.webhook.callLog].outcome =
                   backend.webhook.outcome,
               !.webhook.pc = "outcome"]
    /\ UNCHANGED << dashVars, call, detourPost >>

\* load.update: ASSIGNED when accepted, AVAILABLE otherwise
WebhookUpdateLoad ==
    /\ backend.webhook.pc = "outcome"
    /\ backend' =
           IF backend.webhook.outcome = "ACCEPTED"
           THEN [backend EXCEPT !.loads[backend.webhook.loadId] = "ASSIGNED",
                                !.webhook.pc = "journey"]
           ELSE [backend EXCEPT !.loads[backend.webhook.loadId] = "AVAILABLE",
                                !.webhook = IdleWebhook]
    /\ UNCHANGED << dashVars, call, detourPost >>

\* journey.update: assignedLoadId
WebhookAssignLoad ==
    /\ backend.webhook.pc = "journey"
    /\ backend' =
           [backend EXCEPT
               !.assignedLoadId[backend.webhook.journeyId] =
                   backend.webhook.loadId,
               !.webhook = IdleWebhook]
    /\ UNCHANGED << dashVars, call, detourPost >>

TriggerStep(j) ==
    \/ TriggerReadJourney(j)
    \/ TriggerReadExhausted(j)
    \/ TriggerFindLoads(j)
    \/ TriggerOfferLoad(j)
    \/ TriggerCreateLog(j)
    \/ \E result \in RinggResults : TriggerInitiateCall(j, result)
    \/ TriggerUpdateLog(j)

WebhookStep ==
    \/ WebhookUpdateLog
    \/ WebhookUpdateLoad
    \/ WebhookAssignLoad

NextBackend ==
    \/ \E j \in Drivers : ReceiveTriggerCall(j)
    \/ \E j \in Drivers : TriggerStep(j)
    \/ \E callId \in 1..MaxCallLogs, outcome \in WebhookCallOutcomes :
          ReceiveWebhook(callId, outcome)
    \/ WebhookStep

SpecBackend == Init /\ [][NextBackend]_vars

(***************************************************************************)
(* The backend with the dashboards of the journeys: a page asks for a call *)
(* once, when its truck enters the geofence, and afterwards only reads the *)
(* journey.  A handler that has started runs on; nothing obliges a request *)
(* or a webhook to arrive.                                                 *)
(***************************************************************************)

CallLogsOf(j) ==
    { k \in 1..Len(backend.callLogs) : backend.callLogs[k].journeyId = j }

\* triggerCallForLoad at the geofence entry
DashboardTriggersCall(j) ==
    /\ CallLogsOf(j) = {}
    /\ ReceiveTriggerCall(j)

NextRetry ==
    \/ \E j \in Drivers : DashboardTriggersCall(j)
    \/ \E j \in Drivers : TriggerStep(j)
    \/ \E callId \in 1..MaxCallLogs, outcome \in WebhookCallOutcomes :
          ReceiveWebhook(callId, outcome)
    \/ WebhookStep

SpecRetry ==
    /\ Init
    /\ [][NextRetry]_vars
    /\ \A j \in Drivers : WF_vars(TriggerStep(j))
    /\ WF_vars(WebhookStep)

(***************************************************************************)
(* Properties                                                              *)
(***************************************************************************)
\* a run lasts from the construction of the page or a reset to the next reset

C1_TickInsideRadiusLatches ==
    (simulationTick /\ truckPosition' # truckPosition
                    /\ InGeofence(truckPosition', selectedJourney))
        => (geofenceEntered' /\ geofenceFires' = 1)

C1_FiringPausesAndCalls ==
    (geofenceFires' # geofenceFires /\ geofenceFires' # 0)
        => (simulationTick /\ ~isSimulating' /\ isWaitingForCall')

C1_OnlyResetClears ==
    (geofenceEntered /\ ~geofenceEntered') => handleReset

C2_UpdateProgressBounded ==
    call.fn = "updateProgress" =>
        LET currentProgress == call.args[1]
            r == call.result
        IN  /\ currentProgress <= r
            /\ r <= ProgressOne
            /\ (r - currentProgress) * 100 <= ProgressOne

\* 120 km/h x 50 for 3 s on a 50 km route is 0.1 of the route: capped
C2_Witness ==
    /\ call.fn = "updateProgress"
    /\ call.args = << 45, 3, 50, InitialSpeed, BASE_SPEED_KMH >>
    /\ call.result = 47

C6_InWindow(prog, stoppage) ==
    /\ ~stoppage.triggered
    /\ Abs(prog - stoppage.position) * 1000 < 5 * ProgressOne

C3_ProgressNeverLowered ==
    [][(simulationTick \/ handleStart \/ handlePause
                       \/ handleJumpNearDestination)
          => progress' >= progress]_vars

\* the jump button is enabled with progress beyond the jump target
C3_Witness ==
    /\ JumpEnabled
    /\ Len(routePath) > 0
    /\ progress > JumpProgress

C4_Regenerates ==
    \/ handleReset
    \/ \E j \in Journeys, st \in LoadedStatuses : loadJourney(j, st, TRUE)

C4_StaysTriggered ==
    \A i \in 1..Len(stoppages) :
        (stoppages[i].triggered /\ ~C4_Regenerates)
            => (Len(stoppages') = Len(stoppages) /\ stoppages'[i].triggered)

\* C4: a stoppage marked triggered by a tick stays triggered until the list
\* is regenerated (reset, journey load), checkForStoppage returns it at no
\* progress value, and each stoppage starts at most once per run.
C4_StoppageIdempotent ==
    /\ [](\A i \in 1..Len(stoppages) :
            /\ stoppageStarts[i] <= 1
            /\ stoppages[i].triggered <=> stoppageStarts[i] = 1
            /\ stoppages[i].triggered =>
                  \A prog \in 0..ProgressOne :
                      checkForStoppage(prog, stoppages) # i)
    /\ [][C4_StaysTriggered]_vars

\* on the detour route, ticking again at the position of a stoppage that
\* was started before the detour
C4_Witness ==
    /\ Len(stoppages) = StoppageCount
    /\ stoppages[2].triggered
    /\ stoppageStarts[2] = 1
    /\ isOnDetour /\ isSimulating
    /\ currentStoppage = NoStoppage
    /\ progress = stoppages[2].position

C5_BeyondWindow(prog, stoppage) ==
    (prog - stoppage.position) * 1000 > 5 * ProgressOne

\* C5: no tick takes progress from a value not beyond the detection window
\* of an untriggered stoppage (position + 0.005) to a value beyond it: the
\* stoppage is started before progress passes its window.
C5_TicksDoNotSkipStoppages ==
    [][\A i \in 1..Len(stoppages) :
          ~ /\ simulationTick
            /\ ~stoppages[i].triggered
            /\ ~C5_BeyondWindow(progress, stoppages[i])
            /\ C5_BeyondWindow(progress', stoppages[i])]_vars

\* ticks have passed the first stoppage, which never started
C5_Witness ==
    /\ Len(stoppages) = StoppageCount
    /\ ~stoppages[1].triggered
    /\ stoppageStarts[1] = 0
    /\ ~isOnDetour
    /\ progress = stoppages[1].position + 3

C7_Within10Km(position, zone) ==
    \/ distanceToPolygon(position, zone.coordinates) <= 10
    \/ \E k \in 1..Len(zone.coordinates) :
          calculateDistance(position, zone.coordinates[k]) <= 10

C7_AlertRaised(z) == mapAlerts'[z] > mapAlerts[z]

C7_RaisedOnlyForRedzoneInRange ==
    \A z \in ZoneIds :
        C7_AlertRaised(z) =>
            /\ simulationTick
            /\ redzoneAlertTriggered = NoZone
            /\ redzoneAlertTriggered' = z
            /\ \A y \in ZoneIds \ {z} : ~C7_AlertRaised(y)
            /\ LET zone == zones[ZoneById(zones, z)]
               IN  /\ zone.category \in {"HIGH_RISK", "THEFT", "PILFERAGE"}
                   /\ C7_Within10Km(truckPosition', zone)

\* C7: a tick raises a redzone alert only while no alert is latched, for a
\* single zone of category HIGH_RISK, THEFT or PILFERAGE within 10 km of
\* the truck; at most one redzone alert is shown at any time, and it is the
\* alert of the latched zone.
C7_RedzoneAlertSingle ==
    /\ [](/\ Cardinality(ShownRedzoneAlerts) <= 1
          /\ \A z \in ZoneIds :
                mapAlerts[z] <= 1 /\ (mapAlerts[z] = 1 => redzoneAlertTriggered = z))
    /\ [][C7_RaisedOnlyForRedzoneInRange]_vars

\* the alert for z1 has just been raised with z2 in range as well
C7_Witness ==
    /\ AlertRaised
    /\ RedzoneInRange(truckPosition, zones[ZoneById(zones, "z2")])
    /\ mapAlerts["z2"] = 0

C8_DetourTaken == \E d \in DetourRoutes : DetourRouteForAction(d)

\* C8: the redzone latch is cleared when the alert is resolved by taking the
\* detour and when it is resolved by continuing, and by no other step.
C8_LatchClearedByResolution ==
    /\ [][C8_DetourTaken => redzoneAlertTriggered' = NoZone]_vars
    /\ [][handleContinueOnSameRoute => redzoneAlertTriggered' = NoZone]_vars
    /\ [][(redzoneAlertTriggered # NoZone /\ redzoneAlertTriggered' = NoZone)
             => (C8_DetourTaken \/ handleContinueOnSameRoute)]_vars

\* on the detour with the latch still set
C8_Witness ==
    /\ isOnDetour
    /\ detourRoute # NoRoute
    /\ redzoneAlertTriggered # NoZone

\* C9: a pending detour call whose outcome the webhook delivered as
\* Rejected, No Answer, Busy or Failed leads to the simulation running on
\* the original route with the redzone latch cleared.
C9_NonAcceptedResumesAndClears ==
    (detourCallStatus = "pending" /\ detourCallOutcome \in NonAccepted)
        ~> (/\ isSimulating
            /\ ~isOnDetour
            /\ redzoneAlertTriggered = NoZone)

\* a Busy outcome is stored while the dashboard polls
C9_Witness ==
    /\ detourCallStatus = "pending"
    /\ detourCallOutcome = "BUSY"
    /\ redzoneAlertTriggered # NoZone

C10_LoadCallFailed ==
    LoadCallResponse("error") \/ LoadCallResponse("unreachable")

\* C10: when the load-call trigger fails (error answer or unreachable
\* endpoint) an ERROR event is recorded, the geofence latch is released and
\* the call guard is free again.
C10_CallFailureReleasesLatch ==
    [][C10_LoadCallFailed =>
          /\ \E k \in 1..Len(events') : events'[k] = "ERROR"
          /\ ~geofenceEntered'
          /\ ~isWaitingForCall']_vars

\* the load call is in flight after the geofence fired
C10_Witness ==
    /\ loadCallReq
    /\ geofenceEntered
    /\ geofenceFires = 1


\* the simulation state a stale result must leave alone
C11_SimulationState ==
    << progress, routePath, totalDistanceKm, detourRoute, isOnDetour,
       isSimulating, journeyStatus >>

C11_StaleResult ==
    \/ "action" \in staleRequests
          /\ \E d \in DetourRoutes \cup {NoRoute} : DetourRouteForAction(d)
    \/ "loadCall" \in staleRequests
          /\ \E r \in TriggerResults : LoadCallResponse(r)
    \/ "unloading" \in staleRequests /\ UnloadingComplete

\* C11: a detour-route result, a load-call outcome or an unloading-timer
\* completion whose request was started before the last reset changes none
\* of progress, route, total distance, detour route, isOnDetour,
\* isSimulating and journey status.
C11_StaleResultsAreNoOps ==
    [][C11_StaleResult => UNCHANGED C11_SimulationState]_vars

\* reset while the detour-route request of the Detour button is in flight
C11_Witness ==
    /\ "action" \in detourCalcs
    /\ "action" \in staleRequests
    /\ progress = 0
    /\ journeyStatus = "NOT_STARTED"
    /\ ~isOnDetour

\* a request started in the current run is in flight
C12_Pending ==
    \/ "action" \in detourCalcs \ staleRequests
    \/ loadCallReq /\ "loadCall" \notin staleRequests

C12_NoAdvanceWhilePending ==
    (C12_Pending /\ simulationTick) => progress' = progress

C12_NoSecondStart ==
    /\ handleDetourAction => "action" \notin detourCalcs
    /\ (isWaitingForCall' /\ ~isWaitingForCall) => ~loadCallReq

\* C12: while a detour-route request or a load-call trigger started in the
\* current run is in flight, no tick advances progress, whatever the user
\* does in between (start, detour, continue), and neither request is started
\* again.
C12_PausedWhilePending ==
    /\ [][C12_NoAdvanceWhilePending]_vars
    /\ [][C12_NoSecondStart]_vars

\* resumed by the Start button while the load call is in flight
C12_Witness ==
    /\ loadCallReq
    /\ "loadCall" \notin staleRequests
    /\ isSimulating
    /\ geofenceEntered
    /\ progress < ProgressOne

\* the initial value of every field of the simulation state of a journey
C13_InitialFields(journey) ==
    /\ progress' = 0
    /\ truckPosition' = JourneyOrigin(journey)
    /\ currentStoppage' = NoStoppage
    /\ stoppageTimer' = NoTimer
    /\ stoppages' \in GenerateStoppages
    /\ ~geofenceEntered'
    /\ redzoneAlertTriggered' = NoZone
    /\ ~isOnDetour'
    /\ detourRoute' = NoRoute
    /\ routePath' = JourneyRoute(journey)
    /\ totalDistanceKm' = JourneyRouteKm(journey)

\* C13: handleReset on a journey whose route was loaded leaves every field
\* of the simulation state at its initial value: progress 0, position at
\* the origin, no active stoppage, fresh untriggered stoppages, no geofence
\* or redzone latch, not on a detour and no detour route, route and total
\* distance those of the original route.
C13_ResetRestoresInitialState ==
    [][(handleReset /\ Len(routePath) > 0)
          => C13_InitialFields(selectedJourney)]_vars

\* reset after a detour was taken: still on the detour route
C13_Witness ==
    /\ progress = 0
    /\ journeyStatus = "NOT_STARTED"
    /\ ~isSimulating
    /\ "action" \notin detourCalcs
    /\ isOnDetour
    /\ routePath \in DetourRoutes
    /\ redzoneAlertTriggered # NoZone

\* no latch or mode of a run is set
C14_NothingLeft ==
    /\ ~geofenceEntered'
    /\ redzoneAlertTriggered' = NoZone
    /\ ~isOnDetour'
    /\ detourRoute' = NoRoute
    /\ currentStoppage' = NoStoppage
    /\ stoppageTimer' = NoTimer
    /\ detourCallStatus' # "pending"

C14_SelectsAnother(j) ==
    /\ selectedJourney # NoJourney
    /\ j # selectedJourney
    /\ \E st \in LoadedStatuses : loadJourney(j, st, TRUE)

\* C14: when loadJourney completes for a journey other than the selected
\* one, no latch or mode set during the previous journey's run is left:
\* geofenceEntered false, no redzone latch, not on a detour and no detour
\* route, no active stoppage, no pending detour call.
C14_SelectionDestroysState ==
    [][\A j \in ListedJourneys : C14_SelectsAnother(j) => C14_NothingLeft]_vars

\* journey j2 loaded after a run of j1 that took the detour and entered the
\* geofence
C14_Witness ==
    /\ selectedJourney = "j2"
    /\ routePath = JourneyRoute("j2")
    /\ progress = 0
    /\ geofenceEntered
    /\ isOnDetour
    /\ detourRoute \in DetourRoutes
    /\ redzoneAlertTriggered = "z1"

\* C15: a detour-route request of either caller (the Detour button, the
\* accepted detour call) leads to a running simulation whatever the answer:
\* with a route on the detour, without one on the original route after a
\* WARNING event; the simulation is not left paused for good.
C15_DetourFailureResumes ==
    /\ ("action" \in detourCalcs) ~> isSimulating
    /\ ("poll" \in detourCalcs) ~> isSimulating

\* the Detour button's request is in flight with the simulation paused
C15_Witness ==
    /\ "action" \in detourCalcs
    /\ ~isSimulating
    /\ detourRoute = NoRoute
    /\ mapAlerts = NoAlerts


\* ---------------------------------------------------------------------
\* Properties of the detour route builder (SpecBuilder)
\* ---------------------------------------------------------------------

Answered == detourPost.pc = "done"

\* C16: whatever routing requests fail (non-OK response, no routes, network
\* error), the builder answers with a route and never with an error response.
C16_AnswersWithRoute ==
    Answered =>
        /\ detourPost.response.status = 200
        /\ Len(detourPost.response.routes) > 0

\* zones to avoid and no original route: the request through the waypoints
\* failed and the answer is the error response
C16_Witness ==
    /\ Answered
    /\ Len(detourPost.request.avoidZones) > 0
    /\ Len(detourPost.request.originalRoute) = 0
    /\ detourPost.response.status = 500


\* C17: an assembled route that fails the final clearance validation is
\* followed by a second pass with the STRICTER_KM offset before the builder
\* answers, and the builder never runs more than two passes.
C17_SecondPassAfterFailedValidation ==
    /\ detourPost.pc # "idle" => detourPost.passes <= 2
    /\ Answered /\ ~detourPost.finalValid => detourPost.passes = 2

\* the route assembled along the original route failed the final validation
\* and was returned after the one pass
C17_Witness ==
    /\ Answered
    /\ Len(detourPost.request.originalRoute) > 0
    /\ Len(detourPost.zoneSegments) > 0
    /\ ~detourPost.finalValid
    /\ detourPost.passes = 1
    /\ detourPost.response.status = 200
    /\ detourPost.response.routes = << detourPost.routeSegments >>


\* C18: every point of a route the builder returns is more than
\* CLEARANCE_KM from every zone it was asked to avoid (no response carries
\* a sign of a failed validation).
C18_ReturnedRouteIsClear ==
    Answered /\ Len(detourPost.response.routes) > 0 =>
        PathIsValid(detourPost.response.routes[1],
                    detourPost.request.avoidZones)

\* one zone on the original route, entry before and exit after it, no
\* candidate validated, and the returned route has a point within
\* CLEARANCE_KM of the zone
C18_Witness ==
    /\ Answered
    /\ detourPost.request.avoidZones = << BuilderZoneA >>
    /\ detourPost.request.originalRoute = CoarseRoute
    /\ detourPost.request.origin = Pt(0, 0)
    /\ Len(detourPost.zoneSegments) = 1
    /\ detourPost.zoneSegments[1].entry.x < 48
    /\ detourPost.zoneSegments[1].exit.x > 52
    /\ detourPost.choices = << [used |-> 0, firstValidated |-> NoneValidated] >>
    /\ detourPost.response.status = 200
    /\ ~PathIsValid(detourPost.response.routes[1],
                    detourPost.request.avoidZones)


RouteGiven ==
    /\ detourPost.pc # "idle"
    /\ Len(detourPost.request.avoidZones) > 0
    /\ Len(detourPost.request.originalRoute) > 0

\* the zone is within APPROACH_KM of a route point at index from or later
ApproachedFrom(route, zone, from) ==
    \E i \in from..Len(route) :
        distanceToPolygon(route[i], zone.coordinates) <= APPROACH_KM

\* C19: startIndex is a point of the original route nearest the origin, and
\* every recorded zone segment has startIndex <= entryIndex < exitIndex <=
\* last index of the route, with entry and exit the route points at these
\* indices; a zone the route approaches only before startIndex has no segment.
C19_SearchedForward ==
    RouteGiven =>
        LET route == detourPost.request.originalRoute
            origin == detourPost.request.origin
            startIndex == detourPost.startIndex
        IN  /\ startIndex \in 1..Len(route)
            /\ \A j \in 1..Len(route) :
                  calculateDistance(origin, route[startIndex])
                      <= calculateDistance(origin, route[j])
            /\ \A k \in 1..Len(detourPost.zoneSegments) :
                  LET segment == detourPost.zoneSegments[k]
                  IN  /\ startIndex <= segment.entryIndex
                      /\ segment.entryIndex < segment.exitIndex
                      /\ segment.exitIndex <= Len(route)
                      /\ segment.entry = route[segment.entryIndex]
                      /\ segment.exit = route[segment.exitIndex]
                      /\ ApproachedFrom(route, segment.zone, startIndex)

\* the truck is on the way, within APPROACH_KM of the zone ahead: the
\* look-back for the entry stops at startIndex
C19_Witness ==
    /\ RouteGiven
    /\ detourPost.startIndex > 1
    /\ Len(detourPost.zoneSegments) = 1
    /\ detourPost.zoneSegments[1].entryIndex = detourPost.startIndex
    /\ ApproachedFrom(detourPost.request.originalRoute, BuilderZoneA, 1)


\* the distances of the candidates of a segment that passed the validation
ValidatedDistances(choice) ==
    { d \in RoutedDistances : choice.firstValidated[d] # 0 }

\* C20: for every segment left behind, if a candidate passed the validation
\* the route used is that of the first tested candidate among those with
\* the least routed distance; the fallback (used = 0) is taken only when no
\* candidate passed.
C20_ShortestValidatedCandidate ==
    detourPost.pc # "idle" =>
        \A k \in 1..Len(detourPost.choices) :
            LET choice == detourPost.choices[k]
                validated == ValidatedDistances(choice)
            IN  IF validated = {} THEN choice.used = 0
                ELSE /\ choice.used \in 1..CandidateCount
                     /\ \E d \in validated :
                           /\ \A e \in validated : d <= e
                           /\ choice.used = choice.firstValidated[d]

\* a longer candidate passed first and a shorter, later one was used
C20_Witness ==
    /\ detourPost.pc # "idle"
    /\ Len(detourPost.choices) > 0
    /\ detourPost.choices[1].firstValidated[200] # 0
    /\ detourPost.choices[1].firstValidated[100]
           > detourPost.choices[1].firstValidated[200]
    /\ detourPost.choices[1].used = detourPost.choices[1].firstValidated[100]

\* the route points from index from to index to more than SAFE_KM from the zone
SafePoints(route, zone, from, to) ==
    { j \in from..to : distanceToPolygon(route[j], zone.coordinates) > SAFE_KM }

GreatestOf(indices) == CHOOSE i \in indices : \A j \in indices : j <= i

\* C24: for every recorded zone segment, with i the first route point from
\* startIndex on within 10 km of the zone: the entry index is the last point
\* before i that is more than 15 km from the zone, and the exit index is the
\* first point after i that is more than 15 km from the zone, where such
\* points exist.
C24_LastSafeEntryFirstSafeExit ==
    RouteGiven =>
        \A k \in 1..Len(detourPost.zoneSegments) :
            LET segment == detourPost.zoneSegments[k]
                route == detourPost.request.originalRoute
                near == FirstNear(route, segment.zone, detourPost.startIndex)
                before == SafePoints(route, segment.zone,
                                     detourPost.startIndex, near - 1)
                after == SafePoints(route, segment.zone, near, Len(route))
            IN  /\ before # {} => segment.entryIndex = GreatestOf(before)
                /\ after # {} => segment.exitIndex = LeastOr0(after)

\* the truck at the start of the route with a point every 2 km: the entry is
\* the first point of the route, 16 points before the last one that is more
\* than 15 km from the zone
C24_Witness ==
    /\ RouteGiven
    /\ detourPost.request.originalRoute = FineRoute
    /\ detourPost.request.origin = Pt(0, 0)
    /\ Len(detourPost.zoneSegments) = 1
    /\ detourPost.zoneSegments[1].entryIndex = 1
    /\ GreatestOf(SafePoints(FineRoute, BuilderZoneA, 1,
                             FirstNear(FineRoute, BuilderZoneA, 1) - 1)) = 17
    /\ detourPost.zoneSegments[1].exitIndex
           = LeastOr0(SafePoints(FineRoute, BuilderZoneA,
                                 FirstNear(FineRoute, BuilderZoneA, 1), 51))

\* C30: every route answered for a request with an original route starts at
\* the truck's position and ends at the destination, whatever the routing
\* service answered.
C30_FromTruckToDestination ==
    Answered /\ Len(detourPost.request.originalRoute) > 0 =>
        \A r \in 1..Len(detourPost.response.routes) :
            LET route == detourPost.response.routes[r]
            IN  /\ route[1] = detourPost.request.origin
                /\ route[Len(route)] = detourPost.request.destination

\* the request from the exit of the last segment to the destination was not
\* answered with a route: the route answered ends at that exit
C30_Witness ==
    /\ Answered
    /\ Len(detourPost.zoneSegments) = 1
    /\ detourPost.zoneSegments[1].exitIndex
           < Len(detourPost.request.originalRoute)
    /\ detourPost.response.status = 200
    /\ Len(detourPost.response.routes) = 1
    /\ LET route == detourPost.response.routes[1]
       IN  /\ route[1] = detourPost.request.origin
           /\ route[Len(route)] = detourPost.zoneSegments[1].exit
           /\ route[Len(route)] # detourPost.request.destination

\* C21: interpolation on an empty route gives the error and no position,
\* and while the active route is empty the tick returns at its guard: no
\* tick step is possible, so no tick changes the simulation state.
C21_EmptyRouteIsFatal ==
    ActiveRoute = << >> =>
        /\ \A prog \in {0, progress, ProgressOne} :
              interpolatePosition(ActiveRoute, prog) = NoPos
        /\ ~ENABLED simulationTick

\* a journey whose directions request failed was selected and started:
\* the interval runs the tick with an empty route
C21_Witness ==
    /\ selectedJourney # NoJourney
    /\ isSimulating
    /\ routePath = << >>
    /\ ActiveRoute = << >>
    /\ progress = 0
    /\ truckPosition = NoPos


\* ---------------------------------------------------------------------
\* Properties of the speed arguments (SpecSpeed)
\* ---------------------------------------------------------------------

InvalidSpeedCall ==
    /\ call.fn \in {"calculateETA", "updateProgress"}
    /\ call.baseSpeedKmh <= 0 \/ call.speedMultiplier <= 0

\* C22: a call of calculateETA or updateProgress with a base speed or a
\* speed multiplier that is not positive ends with InvalidSpeedError and
\* computes neither an ETA nor a progress.
C22_InvalidSpeedRejected ==
    InvalidSpeedCall => call.thrown = "InvalidSpeedError"

\* updateProgress returned a progress below the current one for a negative
\* multiplier
C22_Witness ==
    /\ InvalidSpeedCall
    /\ call.fn = "updateProgress"
    /\ call.speedMultiplier < 0
    /\ call.baseSpeedKmh > 0
    /\ call.thrown = "none"
    /\ call.result.value < call.args[1]


(***************************************************************************)
(* Properties of the backend handlers (SpecBackend)                        *)
(***************************************************************************)

\* C27: whenever a journey's assignedLoadId is a load, that load has status
\* ASSIGNED, whatever webhooks were delivered, duplicates for one call
\* included.
C27_AssignedLoadIsAssigned ==
    \A j \in Drivers :
        backend.assignedLoadId[j] # NoLoad
            => backend.loads[backend.assignedLoadId[j]] = "ASSIGNED"

\* one call only was ever made; it was accepted and assigned, and a second
\* webhook for it has made the load AVAILABLE again
C27_Witness ==
    /\ Len(backend.callLogs) = 1
    /\ backend.callLogs[1].outcome \in DeclinedOutcomes
    /\ backend.assignedLoadId[backend.callLogs[1].journeyId]
           = backend.callLogs[1].loadId
    /\ backend.loads[backend.callLogs[1].loadId] = "AVAILABLE"
    /\ backend.webhook.pc = "idle"

InitiatedFor(l) ==
    { k \in 1..Len(backend.callLogs) :
        /\ backend.callLogs[k].status = "INITIATED"
        /\ backend.callLogs[k].loadId = l }

\* C28: no two call logs with status INITIATED refer to the same load, and
\* no load is assigned to two journeys.
C28_OneOfferPerLoad ==
    /\ \A l \in Loads : Cardinality(InitiatedFor(l)) <= 1
    /\ \A j1, j2 \in Drivers :
           j1 # j2 /\ backend.assignedLoadId[j1] # NoLoad
               => backend.assignedLoadId[j1] # backend.assignedLoadId[j2]

\* two requests for different journeys have each created a call log for the
\* same load before any webhook arrived
C28_Witness ==
    /\ Len(backend.callLogs) = 2
    /\ backend.callLogs[1].journeyId # backend.callLogs[2].journeyId
    /\ backend.callLogs[1].loadId = backend.callLogs[2].loadId
    /\ \A k \in 1..2 : /\ backend.callLogs[k].status = "INITIATED"
                       /\ backend.callLogs[k].ringgCallId # NoCallId
    /\ backend.loads[backend.callLogs[1].loadId] = "OFFERED"

\* a request for the load is between marking it OFFERED and its answer
OfferInProgress(l) ==
    \E j \in Drivers : /\ TriggerOf(j).pc \in {"log", "call", "update"}
                       /\ TriggerOf(j).nearestLoad = l

\* a call for the load was placed and is not completed
CallPlacedFor(l) ==
    \E k \in InitiatedFor(l) : backend.callLogs[k].ringgCallId # NoCallId

\* C29: a load is OFFERED only while a call for it was placed (or the request
\* that offers it is still at work), and a request whose call could not be
\* initiated does not answer with success.
C29_OfferedOnlyWhileCalled ==
    /\ \A l \in Loads :
           backend.loads[l] = "OFFERED" => OfferInProgress(l) \/ CallPlacedFor(l)
    /\ \A j \in Drivers :
           TriggerOf(j).pc = "done" /\ TriggerOf(j).ringg \in {"failed", "throws"}
               => ~TriggerOf(j).success

\* the calling service refused the call; the request answered 200 with
\* success: true, and the load is OFFERED with no call placed for it
C29_Witness ==
    \E j \in Drivers :
        /\ TriggerOf(j).pc = "done"
        /\ TriggerOf(j).ringg = "failed"
        /\ TriggerOf(j).status = 200
        /\ TriggerOf(j).success
        /\ \E l \in Loads : /\ backend.loads[l] = "OFFERED"
                            /\ ~OfferInProgress(l)
                            /\ ~CallPlacedFor(l)


(***************************************************************************)
(* Properties of the backend with one dashboard (SpecRetry)                *)
(***************************************************************************)

\* a call of the journey has ended with Rejected, No Answer or Busy
CallDeclined(j) ==
    /\ backend.webhook.pc = "idle"
    /\ \E k \in CallLogsOf(j) :
           /\ backend.callLogs[k].status = "COMPLETED"
           /\ backend.callLogs[k].outcome \in {"REJECTED", "NO_ANSWER", "BUSY"}

\* the journey has no load and a load it has not declined is available
NextLoadExists(j) ==
    /\ backend.assignedLoadId[j] = NoLoad
    /\ Len(AvailableLoads(ExhaustedIds(j))) > 0

\* C23: after a call of a journey has ended with Rejected, No Answer or
\* Busy, a further call is eventually initiated for the journey, unless no
\* load is left for it or it has a load.
C23_RetriesNextLoad ==
    \A j \in Drivers, n \in 1..MaxCallLogs :
        (/\ CallDeclined(j)
         /\ NextLoadExists(j)
         /\ Cardinality(CallLogsOf(j)) = n)
            ~> (\/ Cardinality(CallLogsOf(j)) > n
                \/ ~NextLoadExists(j))

\* the only call of the journey was declined, its request has answered and
\* the other load is still available
C23_Witness ==
    /\ CallDeclined("a")
    /\ NextLoadExists("a")
    /\ Cardinality(CallLogsOf("a")) = 1
    /\ TriggerOf("a").pc = "done"
    /\ CallLogsOf("b") = {}
    /\ backend.loads["l2"] = "AVAILABLE"


(***************************************************************************)
(* Properties of the run with close stoppages (SpecStoppage)               *)
(***************************************************************************)

StoppageActive == currentStoppage # NoStoppage /\ stoppageTimer # NoTimer

\* C25: a tick while a stoppage is active leaves progress and position as
\* they are and lowers the remaining time by deltaSeconds * speed, and it
\* ends the stoppage exactly when the remaining time so lowered is <= 0.
C25_ActiveStoppageOnlyCountsDown ==
    [][StoppageActive /\ simulationTick =>
          /\ progress' = progress
          /\ truckPosition' = truckPosition
          /\ \E deltaSeconds \in DeltaSeconds :
                LET newTimer == stoppageTimer - deltaSeconds * speed
                IN  IF newTimer <= 0
                    THEN currentStoppage' = NoStoppage /\ stoppageTimer' = NoTimer
                    ELSE /\ currentStoppage' = currentStoppage
                         /\ stoppageTimer' = newTimer]_vars

\* the tick after the start of a stoppage has started the other stoppage at
\* the same position: the remaining time is a full duration again and no
\* second was counted for the first
C25_Witness ==
    /\ stoppageStarts = << 1, 1 >>
    /\ stoppages[1].position = stoppages[2].position
    /\ currentStoppage = stoppages[2]
    /\ stoppageTimer = stoppages[2].duration
    /\ stoppageHeld = << 0, 0 >>

\* C26: every stoppage that has started and is no longer the current one
\* was counted down for at least its duration.
C26_HeldForFullDuration ==
    \A i \in DOMAIN stoppages :
        stoppageStarts[i] > 0 /\ currentStoppage # stoppages[i]
            => stoppageHeld[i] >= stoppages[i].duration

\* both stoppages at one position have started and the truck moves again,
\* after less time than the duration of the first one
C26_Witness ==
    /\ stoppageStarts = << 1, 1 >>
    /\ currentStoppage = NoStoppage
    /\ progress > stoppages[1].position
    /\ stoppageHeld[1] = 0
    /\ stoppageHeld[2] >= stoppages[2].duration
    /\ stoppageHeld[1] + stoppageHeld[2] < stoppages[1].duration

====
